---------------------------- MODULE Spec2Model ----------------------------
(***************************************************************************)
(* Model of the ADGM compliance rule engine of src/main.py:                *)
(* EnhancedADGMKnowledgeBase, EnhancedDocumentProcessor and                *)
(* EnhancedADGMCorporateAgent.                                             *)
(*                                                                         *)
(* Conventions.                                                            *)
(*  - A Python str that the code inspects character by character (document *)
(*    text, file names, document-type labels, regex patterns) is a sequence *)
(*    of one-character strings.  A str the code only passes around         *)
(*    (messages, references, process identifiers) is a TLA+ string.        *)
(*  - A Python float that carries a confidence or a score is an integer in *)
(*    thousandths: 0.95 is 950, 100.0 is 100000.  A classifier score       *)
(*    (which adds weight * 1.5) is an integer in halves.                   *)
(*  - None is the string "None" where a str or a result is expected, and 0 *)
(*    for DocumentIssue.line_number (line numbers are 1-based).            *)
(***************************************************************************)
EXTENDS Integers, Sequences, FiniteSets, TLC

VARIABLES
    DOCX_AVAILABLE, \* module global set by the import of python-docx
    kb,             \* the EnhancedADGMKnowledgeBase instance's tables
    agent,          \* the agent's and the processor's own fields
    calls,          \* the analyze_documents calls in progress, by request
    probe           \* one application of a pure function: inputs and result

vars == <<DOCX_AVAILABLE, kb, agent, calls, probe>>

(***************************************************************************)
(* Bounds of the model.                                                    *)
(***************************************************************************)
MaxPerSeverity == 3     \* issues of one severity in a scored issue list
MaxMissing == 3         \* missing documents handed to the scorer
MaxDocs == 1            \* document count handed to the scorer

(***************************************************************************)
(* Fixed-point units.                                                      *)
(***************************************************************************)
Milli == 1000           \* 1.0 as a confidence; one score point

Min2(a, b) == IF a < b THEN a ELSE b
Max2(a, b) == IF a > b THEN a ELSE b

Severities == {"Critical", "High", "Medium", "Low"}

(***************************************************************************)
(* @dataclass DocumentIssue.                                               *)
(***************************************************************************)
DocumentIssue(document, section, issue, severity, suggestion, adgm_reference, line_number, confidence, category) ==
    [document |-> document, section |-> section, issue |-> issue,
     severity |-> severity, suggestion |-> suggestion,
     adgm_reference |-> adgm_reference, line_number |-> line_number,
     confidence |-> confidence, category |-> category]

(***************************************************************************)
(* Python str operations on character sequences.                           *)
(***************************************************************************)
UpperToLower ==
    [c \in {"A","B","C","D","E","F","G","H","I","J","K","L","M","N","O","P","Q","R","S","T",
            "U","V","W","X","Y","Z"} |->
        CASE c = "A" -> "a" [] c = "B" -> "b" [] c = "C" -> "c" [] c = "D" -> "d"
          [] c = "E" -> "e" [] c = "F" -> "f" [] c = "G" -> "g" [] c = "H" -> "h"
          [] c = "I" -> "i" [] c = "J" -> "j" [] c = "K" -> "k" [] c = "L" -> "l"
          [] c = "M" -> "m" [] c = "N" -> "n" [] c = "O" -> "o" [] c = "P" -> "p"
          [] c = "Q" -> "q" [] c = "R" -> "r" [] c = "S" -> "s" [] c = "T" -> "t"
          [] c = "U" -> "u" [] c = "V" -> "v" [] c = "W" -> "w" [] c = "X" -> "x"
          [] c = "Y" -> "y" [] c = "Z" -> "z"]

LowerChar(c) == IF c \in DOMAIN UpperToLower THEN UpperToLower[c] ELSE c

\* str.lower()
lower(s) == [i \in 1..Len(s) |-> LowerChar(s[i])]

Whitespace == {" ", "\n", "\t", "\r"}
DigitChars == {"0","1","2","3","4","5","6","7","8","9"}
WordChars ==
    DOMAIN UpperToLower \cup {LowerChar(c) : c \in DOMAIN UpperToLower}
        \cup DigitChars \cup {"_"}

\* s[i:i+len(sub)] == sub, i a 1-based index
occurs_at(sub, s, i) ==
    /\ i >= 1
    /\ i + Len(sub) - 1 <= Len(s)
    /\ \A j \in 1..Len(sub) : s[i + j - 1] = sub[j]

\* sub in s
contains(sub, s) == \E i \in 1..(Len(s) - Len(sub) + 1) : occurs_at(sub, s, i)

\* s.startswith(prefix)
startswith(s, prefix) == occurs_at(prefix, s, 1)

\* s.count(c) for a one-character c
count_char(s, c) == Cardinality({i \in 1..Len(s) : s[i] = c})

SetMin(S) == CHOOSE x \in S : \A y \in S : x <= y
SetMax(S) == CHOOSE x \in S : \A y \in S : x >= y

\* s.split(): the maximal runs of non-whitespace characters, in order
RECURSIVE split_from(_, _)
split_from(s, pos) ==
    LET starts == {i \in pos..Len(s) : s[i] \notin Whitespace}
    IN  IF starts = {} THEN <<>>
        ELSE LET b == SetMin(starts)
                 stops == {i \in b..Len(s) : s[i] \in Whitespace}
                 e == IF stops = {} THEN Len(s) + 1 ELSE SetMin(stops)
             IN  <<SubSeq(s, b, e - 1)>> \o split_from(s, e)

split(s) == split_from(s, 1)

(***************************************************************************)
(* The re module, for the patterns of this program.  Positions are 1-based; *)
(* a match is [start, end, group] with end exclusive, so Python's          *)
(* match.start() is start - 1 and match.end() is end - 1.                  *)
(***************************************************************************)
same_char(a, b, ignorecase) == IF ignorecase THEN LowerChar(a) = LowerChar(b) ELSE a = b

lit_at(sub, s, i, ignorecase) ==
    /\ i + Len(sub) - 1 <= Len(s)
    /\ \A j \in 1..Len(sub) : same_char(s[i + j - 1], sub[j], ignorecase)

\* the first position from i on whose character is not in the class (or is not c)
run_end(s, i, class) ==
    LET stops == {k \in i..Len(s) : s[k] \notin class}
    IN  IF stops = {} THEN Len(s) + 1 ELSE SetMin(stops)

\* "." matches any character but the newline
line_end(s, i) ==
    LET stops == {k \in i..Len(s) : s[k] = "\n"}
    IN  IF stops = {} THEN Len(s) + 1 ELSE SetMin(stops)

\* The backtracking matcher: the end of the match of elements k.. of the
\* pattern at position i of s, or 0 when there is none.  A greedy element
\* takes the longest repetition the rest of the pattern still matches after,
\* a lazy one the shortest.
RECURSIVE match_end(_, _, _, _, _)
match_end(pattern, k, s, i, ignorecase) ==
    IF k > Len(pattern) THEN i
    ELSE LET e == pattern[k]
             rest(j) == match_end(pattern, k + 1, s, j, ignorecase)
             longest(js) == LET ok == {j \in js : rest(j) # 0}
                            IN  IF ok = {} THEN 0 ELSE rest(SetMax(ok))
             shortest(js) == LET ok == {j \in js : rest(j) # 0}
                             IN  IF ok = {} THEN 0 ELSE rest(SetMin(ok))
         IN  CASE e.t = "lit" ->
                    IF lit_at(e.s, s, i, ignorecase) THEN rest(i + Len(e.s)) ELSE 0
               [] e.t = "ws" -> longest((i + e.n)..run_end(s, i, Whitespace))
               [] e.t = "word" -> longest((i + e.n)..run_end(s, i, WordChars))
               [] e.t = "digit" -> longest((i + e.n)..run_end(s, i, DigitChars))
               [] e.t = "rep" -> longest((i + e.n)..run_end(s, i, {e.s[1]}))
               [] e.t = "any" -> longest(i..line_end(s, i))
               [] e.t = "anylazy" -> shortest(i..line_end(s, i))
               [] e.t = "eos" ->
                    IF i = Len(s) + 1 \/ (i = Len(s) /\ s[i] = "\n") THEN rest(i) ELSE 0
               [] e.t = "not" ->
                    IF match_end(e.p, 1, s, i, ignorecase) = 0 THEN rest(i) ELSE 0

\* the scan of re.finditer from position pos on: the leftmost match, then the
\* leftmost match that starts at or after its end
RECURSIVE scan_from(_, _, _, _)
scan_from(starts, ends, s, pos) ==
    LET left == {i \in starts : i >= pos}
    IN  IF left = {} THEN <<>>
        ELSE LET b == SetMin(left)
                 e == ends[b]
             IN  <<[start |-> b, end |-> e, group |-> SubSeq(s, b, e - 1)]>>
                     \o scan_from(starts, ends, s, IF e > b THEN e ELSE e + 1)

\* list(re.finditer(pattern, s, flags))
finditer(pattern, s, ignorecase) ==
    LET ends == [i \in 1..(Len(s) + 1) |-> match_end(pattern, 1, s, i, ignorecase)]
        starts == {i \in 1..(Len(s) + 1) : ends[i] # 0}
    IN  scan_from(starts, ends, s, 1)

\* len(re.findall(pattern, s))
findall_count(pattern, s) == Len(finditer(pattern, s, FALSE))

(***************************************************************************)
(* EnhancedADGMKnowledgeBase.__init__: official_adgm_documents.  A document *)
(* label is a character sequence; required_docs and optional_docs keep the *)
(* order of the source lists.  The template URLs (official_templates) are  *)
(* not read by the analysis and are left out.                              *)
(***************************************************************************)
official_adgm_documents ==
    [company_incorporation |-> [
        required_docs |-> <<
            \* "Articles of Association (AoA)"
            <<"A","r","t","i","c","l","e","s"," ","o","f"," ","A","s","s","o","c","i","a",
              "t","i","o","n"," ","(","A","o","A",")">>,
            \* "Memorandum of Association (MoA)"
            <<"M","e","m","o","r","a","n","d","u","m"," ","o","f"," ","A","s","s","o","c",
              "i","a","t","i","o","n"," ","(","M","o","A",")">>,
            \* "Board Resolution for Incorporation"
            <<"B","o","a","r","d"," ","R","e","s","o","l","u","t","i","o","n"," ","f","o",
              "r"," ","I","n","c","o","r","p","o","r","a","t","i","o","n">>,
            \* "UBO Declaration Form"
            <<"U","B","O"," ","D","e","c","l","a","r","a","t","i","o","n"," ","F","o","r",
              "m">>,
            \* "Register of Members and Directors"
            <<"R","e","g","i","s","t","e","r"," ","o","f"," ","M","e","m","b","e","r","s",
              " ","a","n","d"," ","D","i","r","e","c","t","o","r","s">>>>,
        optional_docs |-> <<
            \* "Shareholder Resolution"
            <<"S","h","a","r","e","h","o","l","d","e","r"," ","R","e","s","o","l","u","t",
              "i","o","n">>,
            \* "Change of Registered Address Notice"
            <<"C","h","a","n","g","e"," ","o","f"," ","R","e","g","i","s","t","e","r","e",
              "d"," ","A","d","d","r","e","s","s"," ","N","o","t","i","c","e">>,
            \* "Company Constitution"
            <<"C","o","m","p","a","n","y"," ","C","o","n","s","t","i","t","u","t","i","o",
              "n">>>>],
     employment_requirements |-> [
        required_docs |-> <<
            \* "Employment Contract (ADGM Standard 2024)"
            <<"E","m","p","l","o","y","m","e","n","t"," ","C","o","n","t","r","a","c","t",
              " ","(","A","D","G","M"," ","S","t","a","n","d","a","r","d"," ","2","0","2",
              "4",")">>,
            \* "Employee Handbook"
            <<"E","m","p","l","o","y","e","e"," ","H","a","n","d","b","o","o","k">>,
            \* "Workplace Policies"
            <<"W","o","r","k","p","l","a","c","e"," ","P","o","l","i","c","i","e","s">>>>,
        optional_docs |-> <<
            \* "Visa Documentation"
            <<"V","i","s","a"," ","D","o","c","u","m","e","n","t","a","t","i","o","n">>,
            \* "Training Records"
            <<"T","r","a","i","n","i","n","g"," ","R","e","c","o","r","d","s">>,
            \* "Performance Management Policy"
            <<"P","e","r","f","o","r","m","a","n","c","e"," ","M","a","n","a","g","e","m",
              "e","n","t"," ","P","o","l","i","c","y">>>>],
     data_protection |-> [
        required_docs |-> <<
            \* "Appropriate Policy Document"
            <<"A","p","p","r","o","p","r","i","a","t","e"," ","P","o","l","i","c","y"," ",
              "D","o","c","u","m","e","n","t">>,
            \* "Data Protection Policy"
            <<"D","a","t","a"," ","P","r","o","t","e","c","t","i","o","n"," ","P","o","l",
              "i","c","y">>,
            \* "Privacy Notice"
            <<"P","r","i","v","a","c","y"," ","N","o","t","i","c","e">>>>,
        optional_docs |-> <<>>],
     compliance_filings |-> [
        required_docs |-> <<
            \* "Annual Accounts"
            <<"A","n","n","u","a","l"," ","A","c","c","o","u","n","t","s">>,
            \* "Regulatory Returns"
            <<"R","e","g","u","l","a","t","o","r","y"," ","R","e","t","u","r","n","s">>,
            \* "Compliance Certificate"
            <<"C","o","m","p","l","i","a","n","c","e"," ","C","e","r","t","i","f","i","c",
              "a","t","e">>>>,
        optional_docs |-> <<>>],
     licensing_requirements |-> [
        required_docs |-> <<
            \* "License Application Form"
            <<"L","i","c","e","n","s","e"," ","A","p","p","l","i","c","a","t","i","o","n",
              " ","F","o","r","m">>,
            \* "Business Plan"
            <<"B","u","s","i","n","e","s","s"," ","P","l","a","n">>,
            \* "Compliance Manual"
            <<"C","o","m","p","l","i","a","n","c","e"," ","M","a","n","u","a","l">>,
            \* "Risk Management Policy"
            <<"R","i","s","k"," ","M","a","n","a","g","e","m","e","n","t"," ","P","o","l",
              "i","c","y">>>>,
        optional_docs |-> <<>>]]

(***************************************************************************)
(* Regular expressions.  A pattern is the sequence of its elements, each a *)
(* record [t, s, n, p]:                                                    *)
(*   Lit(s)      the literal s            Ws1     \s+       Ws0    \s*     *)
(*   Word1       \w+                      Digit1  \d+                       *)
(*   Any0        .*  (greedy)             Any0Lazy  .*?                     *)
(*   Rep(c, n)   c{n,} (greedy)           Eos     $                         *)
(*   Not(p)      the negative lookahead (?!p)                              *)
(***************************************************************************)
Lit(s) == [t |-> "lit", s |-> s, n |-> 0, p |-> <<>>]
Ws1 == [t |-> "ws", s |-> <<>>, n |-> 1, p |-> <<>>]
Ws0 == [t |-> "ws", s |-> <<>>, n |-> 0, p |-> <<>>]
Word1 == [t |-> "word", s |-> <<>>, n |-> 1, p |-> <<>>]
Digit1 == [t |-> "digit", s |-> <<>>, n |-> 1, p |-> <<>>]
Any0 == [t |-> "any", s |-> <<>>, n |-> 0, p |-> <<>>]
Any0Lazy == [t |-> "anylazy", s |-> <<>>, n |-> 0, p |-> <<>>]
Rep(c, n) == [t |-> "rep", s |-> <<c>>, n |-> n, p |-> <<>>]
Eos == [t |-> "eos", s |-> <<>>, n |-> 0, p |-> <<>>]
Not(p) == [t |-> "not", s |-> <<>>, n |-> 0, p |-> p]

\* "ADGM" and "address", the literals of the lookaheads
ADGM == <<"A","D","G","M">>
NoADGM == Not(<<Any0, Lit(ADGM)>>)                  \* (?!.*ADGM)
NoADGMAddress ==                                   \* (?!.*ADGM.*address)
    Not(<<Any0, Lit(ADGM), Any0, Lit(<<"a","d","d","r","e","s","s">>)>>)

(***************************************************************************)
(* EnhancedADGMKnowledgeBase.__init__: red_flag_patterns, an ordered dict:  *)
(* the sequence of its categories in insertion order, "name" the key.      *)
(***************************************************************************)
red_flag_patterns == <<
    \* "critical_jurisdiction_issues"
    [name |-> <<"c","r","i","t","i","c","a","l","_","j","u","r","i","s","d","i","c","t","i",
                "o","n","_","i","s","s","u","e","s">>,
     patterns |-> <<
        \* r"UAE Federal Court(?!.*ADGM)"
        <<Lit(<<"U","A","E"," ","F","e","d","e","r","a","l"," ","C","o","u","r","t">>), NoADGM>>,
        \* r"Dubai Courts(?!.*ADGM)"
        <<Lit(<<"D","u","b","a","i"," ","C","o","u","r","t","s">>), NoADGM>>,
        \* r"Sharjah Courts"
        <<Lit(<<"S","h","a","r","j","a","h"," ","C","o","u","r","t","s">>)>>,
        \* r"Federal Law(?!.*ADGM)"
        <<Lit(<<"F","e","d","e","r","a","l"," ","L","a","w">>), NoADGM>>,
        \* r"UAE Civil Code(?!.*ADGM)"
        <<Lit(<<"U","A","E"," ","C","i","v","i","l"," ","C","o","d","e">>), NoADGM>>,
        \* r"Emirates Law(?!.*ADGM)"
        <<Lit(<<"E","m","i","r","a","t","e","s"," ","L","a","w">>), NoADGM>>,
        \* r"Ministry of Justice(?!.*ADGM)"
        <<Lit(<<"M","i","n","i","s","t","r","y"," ","o","f"," ","J","u","s","t","i","c",
                "e">>), NoADGM>>>>,
     severity |-> "Critical",
     category |-> "jurisdiction",
     message |-> "Document references non-ADGM jurisdiction - Critical compliance issue",
     official_reference |-> "ADGM Companies Regulations 2020, Article 6"],
    \* "high_template_non_compliance"
    [name |-> <<"h","i","g","h","_","t","e","m","p","l","a","t","e","_","n","o","n","_","c",
                "o","m","p","l","i","a","n","c","e">>,
     patterns |-> <<
        \* r"company limited by shares(?!.*ADGM)"
        <<Lit(<<"c","o","m","p","a","n","y"," ","l","i","m","i","t","e","d"," ","b","y"," ",
                "s","h","a","r","e","s">>), NoADGM>>,
        \* r"registered office(?!.*ADGM.*address)"
        <<Lit(<<"r","e","g","i","s","t","e","r","e","d"," ","o","f","f","i","c","e">>), NoADGMAddress>>,
        \* r"governing law(?!.*ADGM)"
        <<Lit(<<"g","o","v","e","r","n","i","n","g"," ","l","a","w">>), NoADGM>>,
        \* r"Articles.*Association(?!.*ADGM)"
        <<Lit(<<"A","r","t","i","c","l","e","s">>), Any0, Lit(<<"A","s","s","o","c","i","a","t","i","o","n">>), NoADGM>>>>,
     severity |-> "High",
     category |-> "template_compliance",
     message |-> "Document does not follow official ADGM templates",
     official_reference |-> "ADGM Official Templates and Guidance"],
    \* "high_employment_non_compliance"
    [name |-> <<"h","i","g","h","_","e","m","p","l","o","y","m","e","n","t","_","n","o","n",
                "_","c","o","m","p","l","i","a","n","c","e">>,
     patterns |-> <<
        \* r"UAE Labour Law(?!.*ADGM)"
        <<Lit(<<"U","A","E"," ","L","a","b","o","u","r"," ","L","a","w">>), NoADGM>>,
        \* r"Ministry of Human Resources(?!.*ADGM)"
        <<Lit(<<"M","i","n","i","s","t","r","y"," ","o","f"," ","H","u","m","a","n"," ","R",
                "e","s","o","u","r","c","e","s">>), NoADGM>>,
        \* r"Federal employment(?!.*ADGM)"
        <<Lit(<<"F","e","d","e","r","a","l"," ","e","m","p","l","o","y","m","e","n","t">>), NoADGM>>,
        \* r"Labour Court(?!.*ADGM)"
        <<Lit(<<"L","a","b","o","u","r"," ","C","o","u","r","t">>), NoADGM>>>>,
     severity |-> "High",
     category |-> "employment",
     message |-> "Employment document references non-ADGM employment law",
     official_reference |-> "ADGM Employment Regulations 2019, Article 8"],
    \* "medium_incomplete_clauses"
    [name |-> <<"m","e","d","i","u","m","_","i","n","c","o","m","p","l","e","t","e","_","c",
                "l","a","u","s","e","s">>,
     patterns |-> <<
        \* r"to be determined"
        <<Lit(<<"t","o"," ","b","e"," ","d","e","t","e","r","m","i","n","e","d">>)>>,
        \* r"TBD"
        <<Lit(<<"T","B","D">>)>>,
        \* r"\[.*?\]"
        <<Lit(<<"[">>), Any0Lazy, Lit(<<"]">>)>>,
        \* r"XXX"
        <<Lit(<<"X","X","X">>)>>,
        \* r"_+"
        <<Rep("_", 1)>>,
        \* r"insert\s+\w+"
        <<Lit(<<"i","n","s","e","r","t">>), Ws1, Word1>>,
        \* r"fill\s+in"
        <<Lit(<<"f","i","l","l">>), Ws1, Lit(<<"i","n">>)>>,
        \* r"\.{3,}"
        <<Rep(".", 3)>>,
        \* r"pending"
        <<Lit(<<"p","e","n","d","i","n","g">>)>>,
        \* r"as agreed"
        <<Lit(<<"a","s"," ","a","g","r","e","e","d">>)>>,
        \* r"subject to approval"
        <<Lit(<<"s","u","b","j","e","c","t"," ","t","o"," ","a","p","p","r","o","v","a",
                "l">>)>>,
        \* r"awaiting confirmation"
        <<Lit(<<"a","w","a","i","t","i","n","g"," ","c","o","n","f","i","r","m","a","t","i",
                "o","n">>)>>>>,
     severity |-> "Medium",
     category |-> "completeness",
     message |-> "Incomplete or placeholder text found - all clauses must be completed",
     official_reference |-> "ADGM compliance standards"],
    \* "high_missing_signatures"
    [name |-> <<"h","i","g","h","_","m","i","s","s","i","n","g","_","s","i","g","n","a","t",
                "u","r","e","s">>,
     patterns |-> <<
        \* r"signature:\s*$"
        <<Lit(<<"s","i","g","n","a","t","u","r","e",":">>), Ws0, Eos>>,
        \* r"signed:\s*$"
        <<Lit(<<"s","i","g","n","e","d",":">>), Ws0, Eos>>,
        \* r"director:\s*$"
        <<Lit(<<"d","i","r","e","c","t","o","r",":">>), Ws0, Eos>>,
        \* r"witness:\s*$"
        <<Lit(<<"w","i","t","n","e","s","s",":">>), Ws0, Eos>>,
        \* r"authorized:\s*$"
        <<Lit(<<"a","u","t","h","o","r","i","z","e","d",":">>), Ws0, Eos>>,
        \* r"executed:\s*$"
        <<Lit(<<"e","x","e","c","u","t","e","d",":">>), Ws0, Eos>>,
        \* r"date:\s*$"
        <<Lit(<<"d","a","t","e",":">>), Ws0, Eos>>,
        \* r"seal:\s*$"
        <<Lit(<<"s","e","a","l",":">>), Ws0, Eos>>>>,
     severity |-> "High",
     category |-> "execution",
     message |-> "Missing or incomplete signature/execution section",
     official_reference |-> "ADGM Companies Regulations 2020, Article 15"],
    \* "low_ambiguous_language"
    [name |-> <<"l","o","w","_","a","m","b","i","g","u","o","u","s","_","l","a","n","g","u",
                "a","g","e">>,
     patterns |-> <<
        \* r"may or may not"
        <<Lit(<<"m","a","y"," ","o","r"," ","m","a","y"," ","n","o","t">>)>>,
        \* r"if applicable"
        <<Lit(<<"i","f"," ","a","p","p","l","i","c","a","b","l","e">>)>>,
        \* r"as deemed appropriate"
        <<Lit(<<"a","s"," ","d","e","e","m","e","d"," ","a","p","p","r","o","p","r","i","a",
                "t","e">>)>>,
        \* r"at the discretion"
        <<Lit(<<"a","t"," ","t","h","e"," ","d","i","s","c","r","e","t","i","o","n">>)>>,
        \* r"subject to change"
        <<Lit(<<"s","u","b","j","e","c","t"," ","t","o"," ","c","h","a","n","g","e">>)>>,
        \* r"unless otherwise"
        <<Lit(<<"u","n","l","e","s","s"," ","o","t","h","e","r","w","i","s","e">>)>>,
        \* r"as mutually agreed"
        <<Lit(<<"a","s"," ","m","u","t","u","a","l","l","y"," ","a","g","r","e","e","d">>)>>,
        \* r"to the extent possible"
        <<Lit(<<"t","o"," ","t","h","e"," ","e","x","t","e","n","t"," ","p","o","s","s","i",
                "b","l","e">>)>>>>,
     severity |-> "Low",
     category |-> "drafting",
     message |-> "Ambiguous or non-binding language detected",
     official_reference |-> "ADGM legal drafting guidelines"]>>

(***************************************************************************)
(* EnhancedADGMKnowledgeBase.__init__: official_regulations (the article    *)
(* strings are only passed around) and compliance_requirements (the        *)
(* mandatory_clauses are not read by the analysis and are left out).       *)
(***************************************************************************)
official_regulations ==
    [companies |-> [
        name |-> "ADGM Companies Regulations 2020",
        articles |-> [
            jurisdiction |-> "Article 6 - Jurisdiction and Governing Law",
            incorporation |-> "Article 15 - Company Incorporation Requirements",
            directors |-> "Article 23 - Directors' Duties and Responsibilities",
            shares |-> "Article 45 - Share Capital and Shareholding",
            registers |-> "Article 52 - Statutory Registers Maintenance",
            resolutions |-> "Article 67 - Board and Shareholder Resolutions"]],
     employment |-> [
        name |-> "ADGM Employment Regulations 2019",
        articles |-> [
            contracts |-> "Article 8 - Employment Contract Requirements",
            termination |-> "Article 15 - Termination Procedures",
            wages |-> "Article 22 - Wage Protection and Payment",
            disputes |-> "Article 28 - Employment Dispute Resolution"]],
     data_protection |-> [
        name |-> "ADGM Data Protection Regulations 2021",
        articles |-> [
            processing |-> "Article 6 - Lawful Basis for Processing",
            consent |-> "Article 7 - Conditions for Consent",
            breaches |-> "Article 33 - Personal Data Breach Notification",
            policies |-> "Article 35 - Data Protection Policies"]]]

compliance_requirements ==
    [prohibited_references |-> <<
        \* "UAE Federal Courts"
        <<"U","A","E"," ","F","e","d","e","r","a","l"," ","C","o","u","r","t","s">>,
        \* "Dubai Courts"
        <<"D","u","b","a","i"," ","C","o","u","r","t","s">>,
        \* "UAE Civil Code"
        <<"U","A","E"," ","C","i","v","i","l"," ","C","o","d","e">>,
        \* "Federal Labour Law"
        <<"F","e","d","e","r","a","l"," ","L","a","b","o","u","r"," ","L","a","w">>,
        \* "Ministry of Human Resources"
        <<"M","i","n","i","s","t","r","y"," ","o","f"," ","H","u","m","a","n"," ","R","e",
          "s","o","u","r","c","e","s">>,
        \* "Dubai Municipality"
        <<"D","u","b","a","i"," ","M","u","n","i","c","i","p","a","l","i","t","y">>>>,
     required_references |-> <<
        \* "ADGM"
        <<"A","D","G","M">>,
        \* "Abu Dhabi Global Market"
        <<"A","b","u"," ","D","h","a","b","i"," ","G","l","o","b","a","l"," ","M","a","r",
          "k","e","t">>,
        \* "ADGM Courts"
        <<"A","D","G","M"," ","C","o","u","r","t","s">>,
        \* "ADGM Regulations"
        <<"A","D","G","M"," ","R","e","g","u","l","a","t","i","o","n","s">>,
        \* "ADGM Registration Authority"
        <<"A","D","G","M"," ","R","e","g","i","s","t","r","a","t","i","o","n"," ","A","u",
          "t","h","o","r","i","t","y">>>>]

(***************************************************************************)
(* EnhancedDocumentProcessor.identify_document_type: the local table        *)
(* doc_types, an ordered dict: the sequence of its entries in insertion    *)
(* order, "name" the key (the document-type label).                        *)
(***************************************************************************)
doc_types == <<
    \* "Articles of Association"
    [name |-> <<"A","r","t","i","c","l","e","s"," ","o","f"," ","A","s","s","o","c","i","a",
                "t","i","o","n">>,
     keywords |-> <<
        \* ("articles of association", 10)
        [keyword |-> <<"a","r","t","i","c","l","e","s"," ","o","f"," ","a","s","s","o","c",
                      "i","a","t","i","o","n">>,
         weight |-> 10],
        \* ("aoa", 8)
        [keyword |-> <<"a","o","a">>,
         weight |-> 8],
        \* ("company constitution", 6)
        [keyword |-> <<"c","o","m","p","a","n","y"," ","c","o","n","s","t","i","t","u","t",
                      "i","o","n">>,
         weight |-> 6],
        \* ("share capital", 5)
        [keyword |-> <<"s","h","a","r","e"," ","c","a","p","i","t","a","l">>,
         weight |-> 5],
        \* ("directors", 4)
        [keyword |-> <<"d","i","r","e","c","t","o","r","s">>,
         weight |-> 4]>>,
     section_patterns |-> <<
        \* r"article\s+\d+"
        <<Lit(<<"a","r","t","i","c","l","e">>), Ws1, Digit1>>,
        \* r"clause\s+\d+"
        <<Lit(<<"c","l","a","u","s","e">>), Ws1, Digit1>>,
        \* r"registered office"
        <<Lit(<<"r","e","g","i","s","t","e","r","e","d"," ","o","f","f","i","c","e">>)>>>>],
    \* "Memorandum of Association"
    [name |-> <<"M","e","m","o","r","a","n","d","u","m"," ","o","f"," ","A","s","s","o","c",
                "i","a","t","i","o","n">>,
     keywords |-> <<
        \* ("memorandum of association", 10)
        [keyword |-> <<"m","e","m","o","r","a","n","d","u","m"," ","o","f"," ","a","s","s",
                      "o","c","i","a","t","i","o","n">>,
         weight |-> 10],
        \* ("moa", 8)
        [keyword |-> <<"m","o","a">>,
         weight |-> 8],
        \* ("company objectives", 6)
        [keyword |-> <<"c","o","m","p","a","n","y"," ","o","b","j","e","c","t","i","v","e",
                      "s">>,
         weight |-> 6],
        \* ("business activities", 5)
        [keyword |-> <<"b","u","s","i","n","e","s","s"," ","a","c","t","i","v","i","t","i",
                      "e","s">>,
         weight |-> 5]>>,
     section_patterns |-> <<
        \* r"objectives"
        <<Lit(<<"o","b","j","e","c","t","i","v","e","s">>)>>,
        \* r"activities"
        <<Lit(<<"a","c","t","i","v","i","t","i","e","s">>)>>,
        \* r"liability"
        <<Lit(<<"l","i","a","b","i","l","i","t","y">>)>>>>],
    \* "Board Resolution"
    [name |-> <<"B","o","a","r","d"," ","R","e","s","o","l","u","t","i","o","n">>,
     keywords |-> <<
        \* ("board resolution", 10)
        [keyword |-> <<"b","o","a","r","d"," ","r","e","s","o","l","u","t","i","o","n">>,
         weight |-> 10],
        \* ("directors resolution", 8)
        [keyword |-> <<"d","i","r","e","c","t","o","r","s"," ","r","e","s","o","l","u","t",
                      "i","o","n">>,
         weight |-> 8],
        \* ("board meeting", 6)
        [keyword |-> <<"b","o","a","r","d"," ","m","e","e","t","i","n","g">>,
         weight |-> 6],
        \* ("resolved that", 5)
        [keyword |-> <<"r","e","s","o","l","v","e","d"," ","t","h","a","t">>,
         weight |-> 5]>>,
     section_patterns |-> <<
        \* r"resolved"
        <<Lit(<<"r","e","s","o","l","v","e","d">>)>>,
        \* r"meeting"
        <<Lit(<<"m","e","e","t","i","n","g">>)>>,
        \* r"quorum"
        <<Lit(<<"q","u","o","r","u","m">>)>>>>],
    \* "Employment Contract"
    [name |-> <<"E","m","p","l","o","y","m","e","n","t"," ","C","o","n","t","r","a","c",
                "t">>,
     keywords |-> <<
        \* ("employment contract", 10)
        [keyword |-> <<"e","m","p","l","o","y","m","e","n","t"," ","c","o","n","t","r","a",
                      "c","t">>,
         weight |-> 10],
        \* ("employment agreement", 8)
        [keyword |-> <<"e","m","p","l","o","y","m","e","n","t"," ","a","g","r","e","e","m",
                      "e","n","t">>,
         weight |-> 8],
        \* ("service agreement", 6)
        [keyword |-> <<"s","e","r","v","i","c","e"," ","a","g","r","e","e","m","e","n","t">>,
         weight |-> 6],
        \* ("salary", 4)
        [keyword |-> <<"s","a","l","a","r","y">>,
         weight |-> 4],
        \* ("termination", 4)
        [keyword |-> <<"t","e","r","m","i","n","a","t","i","o","n">>,
         weight |-> 4]>>,
     section_patterns |-> <<
        \* r"employment"
        <<Lit(<<"e","m","p","l","o","y","m","e","n","t">>)>>,
        \* r"salary"
        <<Lit(<<"s","a","l","a","r","y">>)>>,
        \* r"benefits"
        <<Lit(<<"b","e","n","e","f","i","t","s">>)>>,
        \* r"termination"
        <<Lit(<<"t","e","r","m","i","n","a","t","i","o","n">>)>>>>],
    \* "UBO Declaration"
    [name |-> <<"U","B","O"," ","D","e","c","l","a","r","a","t","i","o","n">>,
     keywords |-> <<
        \* ("ubo declaration", 10)
        [keyword |-> <<"u","b","o"," ","d","e","c","l","a","r","a","t","i","o","n">>,
         weight |-> 10],
        \* ("beneficial ownership", 8)
        [keyword |-> <<"b","e","n","e","f","i","c","i","a","l"," ","o","w","n","e","r","s",
                      "h","i","p">>,
         weight |-> 8],
        \* ("ultimate beneficial owner", 10)
        [keyword |-> <<"u","l","t","i","m","a","t","e"," ","b","e","n","e","f","i","c","i",
                      "a","l"," ","o","w","n","e","r">>,
         weight |-> 10]>>,
     section_patterns |-> <<
        \* r"beneficial"
        <<Lit(<<"b","e","n","e","f","i","c","i","a","l">>)>>,
        \* r"ownership"
        <<Lit(<<"o","w","n","e","r","s","h","i","p">>)>>,
        \* r"control"
        <<Lit(<<"c","o","n","t","r","o","l">>)>>>>]>>

(***************************************************************************)
(* The knowledge base as constructed by EnhancedADGMKnowledgeBase.__init__. *)
(***************************************************************************)
KnowledgeBase ==
    [official_adgm_documents |-> official_adgm_documents,
     red_flag_patterns |-> red_flag_patterns,
     official_regulations |-> official_regulations,
     compliance_requirements |-> compliance_requirements]

\* self.official_adgm_documents.get(process_type, {}).get("required_docs", [])
get_requirements_for_process(k, process_type) ==
    IF process_type \in DOMAIN k.official_adgm_documents
        THEN k.official_adgm_documents[process_type].required_docs
        ELSE <<>>

(***************************************************************************)
(* A str built by an f-string or by concatenation: the fixed text "fmt"    *)
(* with its holes, the number "n" and the character sequence "arg" that    *)
(* fill them (0 and <<>> when it has none), and the text appended, "tail". *)
(***************************************************************************)
FStr(fmt, n, arg, tail) == [fmt |-> fmt, n |-> n, arg |-> arg, tail |-> tail]
Str(fmt) == FStr(fmt, 0, <<>>, "")

(***************************************************************************)
(* EnhancedADGMKnowledgeBase.check_jurisdiction_compliance.                *)
(***************************************************************************)
ProhibitedConfidence == 950
MissingReferenceConfidence == 850
MinLengthForReference == 500

adgm_lower == <<"a","d","g","m">>

RECURSIVE flatten(_)
flatten(seqs) == IF Len(seqs) = 0 THEN <<>> ELSE Head(seqs) \o flatten(Tail(seqs))

\* check_jurisdiction_compliance with "len(text) >= 500"
check_jurisdiction_compliance_from_500(k, text) ==
    LET text_lower == lower(text)
        prohibited_refs == k.compliance_requirements.prohibited_references
        required_refs == k.compliance_requirements.required_references
        prohibited_issue(prohibited) ==
            IF contains(lower(prohibited), text_lower) /\ ~contains(adgm_lower, text_lower)
                THEN <<[type |-> "prohibited_jurisdiction",
                        severity |-> "Critical",
                        message |-> FStr("Document references '{}' instead of ADGM jurisdiction",
                                         0, prohibited, ""),
                        suggestion |-> FStr("Replace '{}' with appropriate ADGM equivalent",
                                            0, prohibited, ""),
                        confidence |-> ProhibitedConfidence]>>
                ELSE <<>>
        adgm_mentioned ==
            \E r \in 1..Len(required_refs) : contains(lower(required_refs[r]), text_lower)
        missing_reference ==
            IF ~adgm_mentioned /\ Len(text) >= MinLengthForReference
                THEN <<[type |-> "missing_adgm_reference",
                        severity |-> "High",
                        message |-> Str("Document does not specify ADGM as governing jurisdiction"),
                        suggestion |-> Str("Add appropriate ADGM jurisdiction clause"),
                        confidence |-> MissingReferenceConfidence]>>
                ELSE <<>>
    IN  flatten([r \in 1..Len(prohibited_refs) |-> prohibited_issue(prohibited_refs[r])])
            \o missing_reference

check_jurisdiction_compliance(k, text) ==
    LET text_lower == lower(text)
        prohibited_refs == k.compliance_requirements.prohibited_references
        required_refs == k.compliance_requirements.required_references
        prohibited_issue(prohibited) ==
            IF contains(lower(prohibited), text_lower) /\ ~contains(adgm_lower, text_lower)
                THEN <<[type |-> "prohibited_jurisdiction",
                        severity |-> "Critical",
                        message |-> FStr("Document references '{}' instead of ADGM jurisdiction",
                                         0, prohibited, ""),
                        suggestion |-> FStr("Replace '{}' with appropriate ADGM equivalent",
                                            0, prohibited, ""),
                        confidence |-> ProhibitedConfidence]>>
                ELSE <<>>
        adgm_mentioned ==
            \E r \in 1..Len(required_refs) : contains(lower(required_refs[r]), text_lower)
        missing_reference ==
            IF ~adgm_mentioned /\ Len(text) > MinLengthForReference
                THEN <<[type |-> "missing_adgm_reference",
                        severity |-> "High",
                        message |-> Str("Document does not specify ADGM as governing jurisdiction"),
                        suggestion |-> Str("Add appropriate ADGM jurisdiction clause"),
                        confidence |-> MissingReferenceConfidence]>>
                ELSE <<>>
    IN  flatten([r \in 1..Len(prohibited_refs) |-> prohibited_issue(prohibited_refs[r])])
            \o missing_reference

(***************************************************************************)
(* EnhancedDocumentProcessor.identify_document_type.  Scores are in halves. *)
(***************************************************************************)
ScoreUnit == 2              \* halves in one point of score
FilenameFactor == 3         \* weight * 1.5, in halves
PatternPoints == 2          \* matches * 2
ConfidenceDivisor == 20
ConfidenceCap == 950        \* 0.95
UnknownConfidence == 100    \* 0.1

UnknownDocumentType ==
    <<"U","n","k","n","o","w","n"," ","D","o","c","u","m","e","n","t"," ","T","y","p","e">>

RECURSIVE sum_seq(_)
sum_seq(ns) == IF Len(ns) = 0 THEN 0 ELSE Head(ns) + sum_seq(Tail(ns))

\* type_score with a keyword of the body counted once per occurrence
type_score_per_occurrence(config, text_lower, filename_lower) ==
    LET occurrences(sub, s) == Cardinality({i \in 1..Len(s) : occurs_at(sub, s, i)})
        keyword_score(kw) ==
            occurrences(kw.keyword, text_lower) * kw.weight * ScoreUnit
          + (IF contains(kw.keyword, filename_lower) THEN kw.weight * FilenameFactor ELSE 0)
        pattern_score(pattern) ==
            findall_count(pattern, text_lower) * PatternPoints * ScoreUnit
    IN  sum_seq([i \in 1..Len(config.keywords) |-> keyword_score(config.keywords[i])])
      + sum_seq([i \in 1..Len(config.section_patterns) |->
                    pattern_score(config.section_patterns[i])])

\* the body of "for doc_type, config in doc_types.items()" up to the comparison:
\* the score of one candidate
type_score(config, text_lower, filename_lower) ==
    LET keyword_score(kw) ==
            (IF contains(kw.keyword, text_lower) THEN kw.weight * ScoreUnit ELSE 0)
          + (IF contains(kw.keyword, filename_lower) THEN kw.weight * FilenameFactor ELSE 0)
        pattern_score(pattern) ==
            findall_count(pattern, text_lower) * PatternPoints * ScoreUnit
    IN  sum_seq([i \in 1..Len(config.keywords) |-> keyword_score(config.keywords[i])])
      + sum_seq([i \in 1..Len(config.section_patterns) |->
                    pattern_score(config.section_patterns[i])])

\* best_from with "score >= highest_score": of equal scores the last is kept
RECURSIVE best_from_keeping_last(_, _, _, _, _)
best_from_keeping_last(types, i, text_lower, filename_lower, best) ==
    IF i > Len(types) THEN best
    ELSE LET compare(score) ==
                IF score >= best.highest_score /\ score > 0
                    THEN [best_match |-> types[i].name, highest_score |-> score]
                    ELSE best
         IN  best_from_keeping_last(types, i + 1, text_lower, filename_lower,
                                    compare(type_score(types[i], text_lower, filename_lower)))

\* the loop over doc_types from entry i on, with the running best_match and
\* highest_score
RECURSIVE best_from(_, _, _, _, _)
best_from(types, i, text_lower, filename_lower, best) ==
    IF i > Len(types) THEN best
    ELSE LET compare(score) ==
                IF score > best.highest_score
                    THEN [best_match |-> types[i].name, highest_score |-> score]
                    ELSE best
         IN  best_from(types, i + 1, text_lower, filename_lower,
                       compare(type_score(types[i], text_lower, filename_lower)))

\* type_confidence without min(0.95, ...)
confidence_without_cap(highest_score) ==
    IF highest_score > 0
        THEN (highest_score * Milli) \div (ScoreUnit * ConfidenceDivisor)
        ELSE UnknownConfidence

\* min(0.95, highest_score / 20) if highest_score > 0 else 0.1
type_confidence(highest_score) ==
    IF highest_score > 0
        THEN Min2(ConfidenceCap, (highest_score * Milli) \div (ScoreUnit * ConfidenceDivisor))
        ELSE UnknownConfidence

identify_document_type(text, filename, metadata) ==
    LET answer(best) ==
            [doc_type |-> best.best_match, confidence |-> type_confidence(best.highest_score)]
    IN  answer(best_from(doc_types, 1, lower(text), lower(filename),
                         [best_match |-> UnknownDocumentType, highest_score |-> 0]))

(***************************************************************************)
(* EnhancedDocumentProcessor._generate_enhanced_suggestion and             *)
(* _calculate_issue_confidence.                                            *)
(***************************************************************************)
ArticlesOfAssociation ==
    \* "Articles of Association"
    <<"A","r","t","i","c","l","e","s"," ","o","f"," ","A","s","s","o","c","i","a","t","i","o","n">>
EmploymentContract ==
    \* "Employment Contract"
    <<"E","m","p","l","o","y","m","e","n","t"," ","C","o","n","t","r","a","c","t">>

_generate_enhanced_suggestion(category, matched_text, doc_type, context) ==
    LET base_suggestion ==
            CASE category = \* "critical_jurisdiction_issues"
                        <<"c","r","i","t","i","c","a","l","_","j","u","r","i","s","d","i","c","t","i","o","n","_","i","s","s","u","e","s">> ->
                    FStr("Replace '{}' with 'ADGM Courts' and add exclusive jurisdiction clause",
                         0, matched_text, "")
              [] category = \* "medium_incomplete_clauses"
                        <<"m","e","d","i","u","m","_","i","n","c","o","m","p","l","e","t","e","_","c","l","a","u","s","e","s">> ->
                    FStr("Complete the placeholder '{}' with specific legal content",
                         0, matched_text, "")
              [] category = \* "high_missing_signatures"
                        <<"h","i","g","h","_","m","i","s","s","i","n","g","_","s","i","g","n","a","t","u","r","e","s">> ->
                    Str("Add proper signature blocks with dates and witness requirements")
              [] category = \* "low_ambiguous_language"
                        <<"l","o","w","_","a","m","b","i","g","u","o","u","s","_","l","a","n","g","u","a","g","e">> ->
                    FStr("Replace '{}' with more definitive, binding language",
                         0, matched_text, "")
              [] OTHER -> Str("Review for ADGM compliance")
        addendum ==
            IF doc_type = ArticlesOfAssociation
                    /\ contains(<<"j","u","r","i","s","d","i","c","t","i","o","n">>, category)
                THEN ". Ensure compliance with ADGM Companies Regulations 2020, Article 6."
            ELSE IF doc_type = EmploymentContract
                    /\ contains(<<"e","m","p","l","o","y","m","e","n","t">>, category)
                THEN ". Use ADGM Standard Employment Contract Template 2024."
            ELSE ""
    IN  [base_suggestion EXCEPT !.tail = addendum]

BaseConfidence == 800           \* 0.8
LongMatchLength == 10
LongMatchBonus == 100           \* 0.1
ContextBonus == 50              \* 0.05
IssueConfidenceCap == 980       \* 0.98

context_keywords == <<
    <<"a","d","g","m">>,
    <<"a","b","u"," ","d","h","a","b","i">>,
    <<"c","o","u","r","t","s">> >>

_calculate_issue_confidence(matched_text, context) ==
    LET c1 == BaseConfidence + (IF Len(matched_text) > LongMatchLength THEN LongMatchBonus ELSE 0)
        c2 == c1 + (IF \E i \in 1..Len(context_keywords) :
                            contains(context_keywords[i], lower(context))
                        THEN ContextBonus ELSE 0)
    IN  Min2(IssueConfidenceCap, c2)

(***************************************************************************)
(* EnhancedDocumentProcessor.detect_red_flags.                             *)
(***************************************************************************)
ContextWindow == 100
SnippetLength == 50

\* s.strip()
strip(s) ==
    LET keep == {i \in 1..Len(s) : s[i] \notin Whitespace}
    IN  IF keep = {} THEN <<>> ELSE SubSeq(s, SetMin(keep), SetMax(keep))

\* match_context without the cut at 100 characters before and after the match
match_context_uncut(text, m) == strip(text)

\* text[start:end].strip() around a match; match.start() is m.start - 1
match_context(text, m) ==
    LET start == Max2(0, (m.start - 1) - ContextWindow)
        end == Min2(Len(text), (m.end - 1) + ContextWindow)
    IN  strip(SubSeq(text, start + 1, end))

\* match_line_number counting from 0
match_line_number_from_zero(text, m) == count_char(SubSeq(text, 1, m.start - 1), "\n")

\* text[:match.start()].count('\n') + 1
match_line_number(text, m) == count_char(SubSeq(text, 1, m.start - 1), "\n") + 1

\* pattern_issue with the context handed to _generate_enhanced_suggestion in
\* place of match.group()
pattern_issue_suggesting_context(config, text, doc_type, m) ==
    LET context == match_context(text, m)
        line_number == match_line_number(text, m)
    IN  DocumentIssue(doc_type,
                      FStr("Line {}: '{}...'", line_number,
                           SubSeq(context, 1, Min2(SnippetLength, Len(context))), ""),
                      Str(config.message),
                      config.severity,
                      _generate_enhanced_suggestion(config.name, context, doc_type, context),
                      config.official_reference,
                      line_number,
                      _calculate_issue_confidence(m.group, context),
                      config.category)

\* the DocumentIssue appended for one match of one pattern of one category
pattern_issue(config, text, doc_type, m) ==
    LET context == match_context(text, m)
        line_number == match_line_number(text, m)
    IN  DocumentIssue(doc_type,
                      FStr("Line {}: '{}...'", line_number,
                           SubSeq(context, 1, Min2(SnippetLength, Len(context))), ""),
                      Str(config.message),
                      config.severity,
                      _generate_enhanced_suggestion(config.name, m.group, doc_type, context),
                      config.official_reference,
                      line_number,
                      _calculate_issue_confidence(m.group, context),
                      config.category)

\* jurisdiction_issue with the name of the companies regulations as the
\* reference, in place of its article on jurisdiction
jurisdiction_issue_without_article(k, doc_type, issue_data) ==
    DocumentIssue(doc_type,
                  Str("Jurisdiction Clause"),
                  issue_data.message,
                  issue_data.severity,
                  issue_data.suggestion,
                  k.official_regulations.companies.name,
                  0,
                  issue_data.confidence,
                  "jurisdiction")

\* the DocumentIssue appended for one finding of the jurisdiction check
jurisdiction_issue(k, doc_type, issue_data) ==
    DocumentIssue(doc_type,
                  Str("Jurisdiction Clause"),
                  issue_data.message,
                  issue_data.severity,
                  issue_data.suggestion,
                  k.official_regulations.companies.articles.jurisdiction,
                  0,
                  issue_data.confidence,
                  "jurisdiction")

\* detect_red_flags with the issues of the jurisdiction check appended after
\* the loop over red_flag_patterns
detect_red_flags_patterns_first(k, text, doc_type, metadata) ==
    LET jurisdiction_issues == check_jurisdiction_compliance(k, text)
        of_pattern(config, pattern) ==
            LET matches == finditer(pattern, text, TRUE)
            IN  [j \in 1..Len(matches) |-> pattern_issue(config, text, doc_type, matches[j])]
        of_category(config) ==
            flatten([p \in 1..Len(config.patterns) |-> of_pattern(config, config.patterns[p])])
    IN  flatten([c \in 1..Len(k.red_flag_patterns) |-> of_category(k.red_flag_patterns[c])])
        \o [i \in 1..Len(jurisdiction_issues) |->
                jurisdiction_issue(k, doc_type, jurisdiction_issues[i])]

detect_red_flags(k, text, doc_type, metadata) ==
    LET jurisdiction_issues == check_jurisdiction_compliance(k, text)
        of_pattern(config, pattern) ==
            LET matches == finditer(pattern, text, TRUE)
            IN  [j \in 1..Len(matches) |-> pattern_issue(config, text, doc_type, matches[j])]
        of_category(config) ==
            flatten([p \in 1..Len(config.patterns) |-> of_pattern(config, config.patterns[p])])
    IN  [i \in 1..Len(jurisdiction_issues) |->
            jurisdiction_issue(k, doc_type, jurisdiction_issues[i])]
        \o flatten([c \in 1..Len(k.red_flag_patterns) |-> of_category(k.red_flag_patterns[c])])

(***************************************************************************)
(* EnhancedADGMCorporateAgent._calculate_enhanced_compliance_score.        *)
(***************************************************************************)
WeightCritical == 25
WeightHigh == 15
WeightMedium == 8
WeightLow == 3
WeightDefault == 5
MissingPenalty == 15
CompletenessBonus == 5
QualityBonus == 5
PerfectScore == 100

\* severity_weights with the weights of the four severities in reverse order
severity_weight_reversed(severity) ==
    CASE severity = "Critical" -> WeightLow
      [] severity = "High" -> WeightMedium
      [] severity = "Medium" -> WeightHigh
      [] severity = "Low" -> WeightCritical
      [] OTHER -> WeightDefault

\* severity_weights.get(issue.severity, 5)
severity_weight(severity) ==
    CASE severity = "Critical" -> WeightCritical
      [] severity = "High" -> WeightHigh
      [] severity = "Medium" -> WeightMedium
      [] severity = "Low" -> WeightLow
      [] OTHER -> WeightDefault

\* the for loop of deductions: score -= weight * confidence_factor, from issue i on
RECURSIVE deduct_from(_, _, _)
deduct_from(issues, i, score) ==
    IF i > Len(issues) THEN score
    ELSE deduct_from(issues, i + 1,
                     score - severity_weight(issues[i].severity) * issues[i].confidence)

any_critical(issues) == \E i \in 1..Len(issues) : issues[i].severity = "Critical"

\* _calculate_enhanced_compliance_score without "if num_docs == 0: return 0.0"
score_without_short_circuit(issues, num_docs, num_missing) ==
    LET s1 == deduct_from(issues, 1, PerfectScore * Milli)
        s2 == s1 - num_missing * MissingPenalty * Milli
        s3 == IF num_missing = 0 THEN s2 + CompletenessBonus * Milli ELSE s2
        s4 == IF ~any_critical(issues) THEN s3 + QualityBonus * Milli ELSE s3
    IN  Max2(0, Min2(PerfectScore * Milli, s4))

\* _calculate_enhanced_compliance_score with the deduction weight in place of
\* weight * confidence_factor
score_without_confidence(issues, num_docs, num_missing) ==
    IF num_docs = 0 THEN 0
    ELSE LET full == [i \in 1..Len(issues) |-> [issues[i] EXCEPT !.confidence = Milli]]
             s1 == deduct_from(full, 1, PerfectScore * Milli)
             s2 == s1 - num_missing * MissingPenalty * Milli
             s3 == IF num_missing = 0 THEN s2 + CompletenessBonus * Milli ELSE s2
             s4 == IF ~any_critical(issues) THEN s3 + QualityBonus * Milli ELSE s3
         IN  Max2(0, Min2(PerfectScore * Milli, s4))

_calculate_enhanced_compliance_score(issues, num_docs, num_missing) ==
    IF num_docs = 0 THEN 0
    ELSE LET s1 == deduct_from(issues, 1, PerfectScore * Milli)
             s2 == s1 - num_missing * MissingPenalty * Milli
             s3 == IF num_missing = 0 THEN s2 + CompletenessBonus * Milli ELSE s2
             s4 == IF ~any_critical(issues) THEN s3 + QualityBonus * Milli ELSE s3
         IN  Max2(0, Min2(PerfectScore * Milli, s4))

(***************************************************************************)
(* EnhancedADGMCorporateAgent._assess_risk_level.                          *)
(***************************************************************************)
HighIssueLimit == 2
MissingLimit == 2
TotalIssueLimit == 5

count_severity(issues, severity) ==
    Cardinality({i \in 1..Len(issues) : issues[i].severity = severity})

\* _assess_risk_level with ">=" where the code compares the number of missing
\* documents with ">"
risk_with_inclusive_limit(issues, missing_docs) ==
    LET critical_issues == count_severity(issues, "Critical")
        high_issues == count_severity(issues, "High")
    IN  IF critical_issues > 0 \/ Len(missing_docs) >= MissingLimit THEN "HIGH RISK"
        ELSE IF high_issues > HighIssueLimit \/ Len(missing_docs) > 0 THEN "MEDIUM RISK"
        ELSE IF Len(issues) > TotalIssueLimit THEN "LOW RISK"
        ELSE "MINIMAL RISK"

_assess_risk_level(issues, missing_docs) ==
    LET critical_issues == count_severity(issues, "Critical")
        high_issues == count_severity(issues, "High")
    IN  IF critical_issues > 0 \/ Len(missing_docs) > MissingLimit THEN "HIGH RISK"
        ELSE IF high_issues > HighIssueLimit \/ Len(missing_docs) > 0 THEN "MEDIUM RISK"
        ELSE IF Len(issues) > TotalIssueLimit THEN "LOW RISK"
        ELSE "MINIMAL RISK"

(***************************************************************************)
(* EnhancedADGMCorporateAgent._determine_process_type.                     *)
(***************************************************************************)
BucketPoints == 10
DefaultProcess == "company_incorporation"

\* the if / elif chain of the scoring loop, in its order; "process" is the key
\* of process_scores, which is declared in the same order
process_buckets == <<
    [process |-> "company_incorporation",
     keywords |-> << <<"a","r","t","i","c","l","e","s">>,
                     <<"m","e","m","o","r","a","n","d","u","m">>,
                     <<"b","o","a","r","d">>,
                     <<"u","b","o">>,
                     <<"r","e","g","i","s","t","e","r">> >>],
    [process |-> "employment_requirements",
     keywords |-> << <<"e","m","p","l","o","y","m","e","n","t">>,
                     <<"c","o","n","t","r","a","c","t">>,
                     <<"s","e","r","v","i","c","e">> >>],
    [process |-> "licensing_requirements",
     keywords |-> << <<"l","i","c","e","n","s","e">>,
                     <<"p","e","r","m","i","t">>,
                     <<"a","p","p","l","i","c","a","t","i","o","n">> >>],
    [process |-> "compliance_filings",
     keywords |-> << <<"c","o","m","p","l","i","a","n","c","e">>,
                     <<"f","i","l","i","n","g">>,
                     <<"a","n","n","u","a","l">> >>] >>

any_keyword_in(keywords, s) == \E i \in 1..Len(keywords) : contains(keywords[i], s)

\* the bucket a lower-cased label adds to: the first whose test holds, 0 for none
bucket_of(doc_type_lower) ==
    LET hits == {b \in 1..Len(process_buckets) :
                    any_keyword_in(process_buckets[b].keywords, doc_type_lower)}
    IN  IF hits = {} THEN 0 ELSE SetMin(hits)

\* the labels identify_document_type can return
KnownLabels == {doc_types[i].name : i \in 1..Len(doc_types)} \cup {UnknownDocumentType}

\* labels of uploaded documents other than those identify_document_type returns
SampleLabels == {
    \* "Register of Members"
    <<"R","e","g","i","s","t","e","r"," ","o","f"," ","M","e","m","b","e","r","s">>,
    \* "AOA"
    <<"A","O","A">>,
    \* "Standard Employment Contract"
    <<"S","t","a","n","d","a","r","d"," ","E","m","p","l","o","y","m","e","n","t"," ","C","o","n","t","r","a","c","t">> }

\* labels of uploaded documents that belong to other processes
ProcessLabels == {
    \* "License Application Form"
    <<"L","i","c","e","n","s","e"," ","A","p","p","l","i","c","a","t","i","o","n"," ","F","o","r","m">>,
    \* "Service License"
    <<"S","e","r","v","i","c","e"," ","L","i","c","e","n","s","e">>,
    \* "Annual Accounts, Regulatory Returns, Compliance Certificate"
    <<"A","n","n","u","a","l"," ","A","c","c","o","u","n","t","s",","," ","R","e","g","u","l","a","t","o","r","y"," ","R","e","t","u","r","n","s",","," ","C","o","m","p","l","i","a","n","c","e"," ","C","e","r","t","i","f","i","c","a","t","e">> }

\* bucket_of for each of these labels, evaluated once
BucketOfLabel ==
    [label \in KnownLabels \cup SampleLabels \cup ProcessLabels |-> bucket_of(lower(label))]

label_bucket(label) ==
    IF label \in DOMAIN BucketOfLabel THEN BucketOfLabel[label] ELSE bucket_of(lower(label))

\* process_scores with a label added to every bucket whose test holds
process_scores_in_every_bucket(doc_types_in) ==
    [b \in 1..Len(process_buckets) |->
        BucketPoints * Cardinality({i \in 1..Len(doc_types_in) :
            any_keyword_in(process_buckets[b].keywords, lower(doc_types_in[i]))})]

\* process_scores after the loop over doc_types_lower
process_scores(doc_types_in) ==
    [b \in 1..Len(process_buckets) |->
        BucketPoints * Cardinality({i \in 1..Len(doc_types_in) :
                                        label_bucket(doc_types_in[i]) = b})]

\* _determine_process_type with max() returning the last item with the
\* greatest value
determine_process_last_of_best(doc_types_in, metadata) ==
    LET scores == process_scores(doc_types_in)
        top == SetMax({scores[b] : b \in 1..Len(process_buckets)})
        best == SetMax({b \in 1..Len(process_buckets) : scores[b] = top})
    IN  IF scores[best] > 0 THEN process_buckets[best].process ELSE DefaultProcess

\* max(process_scores.items(), key=lambda x: x[1]): the first item with the
\* greatest value
_determine_process_type(doc_types_in, metadata) ==
    LET scores == process_scores(doc_types_in)
        top == SetMax({scores[b] : b \in 1..Len(process_buckets)})
        best == SetMin({b \in 1..Len(process_buckets) : scores[b] = top})
    IN  IF scores[best] > 0 THEN process_buckets[best].process ELSE DefaultProcess

(***************************************************************************)
(* EnhancedADGMCorporateAgent._find_missing_documents.                     *)
(***************************************************************************)
MinKeywordLength == 2
MatchRatioPercent == 60         \* match_ratio >= 0.6

key_identifiers == <<
    \* "articles": ["articles", "aoa"]
    << <<"a","r","t","i","c","l","e","s">>, <<"a","o","a">> >>,
    \* "memorandum": ["memorandum", "moa"]
    << <<"m","e","m","o","r","a","n","d","u","m">>, <<"m","o","a">> >>,
    \* "resolution": ["resolution", "board"]
    << <<"r","e","s","o","l","u","t","i","o","n">>, <<"b","o","a","r","d">> >>,
    \* "ubo": ["ubo", "beneficial", "ownership"]
    << <<"u","b","o">>, <<"b","e","n","e","f","i","c","i","a","l">>,
       <<"o","w","n","e","r","s","h","i","p">> >>,
    \* "register": ["register", "members", "directors"]
    << <<"r","e","g","i","s","t","e","r">>, <<"m","e","m","b","e","r","s">>,
       <<"d","i","r","e","c","t","o","r","s">> >> >>

\* required_keywords_of keeping the words of more than 5 characters
required_keywords_of_long_words(required) ==
    SelectSeq(split(lower(required)), LAMBDA word : Len(word) > MinKeywordLength + 3)

\* [word for word in required.lower().split() if len(word) > 2]
required_keywords_of(required) ==
    SelectSeq(split(lower(required)), LAMBDA word : Len(word) > MinKeywordLength)

\* ratio_matches with "match_ratio > 0.6"
ratio_matches_above(required, uploaded) ==
    LET required_keywords == required_keywords_of(required)
        matches == Cardinality({i \in 1..Len(required_keywords) :
                                    contains(required_keywords[i], uploaded)})
    IN  /\ Len(required_keywords) > 0
        /\ matches * 100 > MatchRatioPercent * Len(required_keywords)

\* match_ratio >= 0.6 for one uploaded label
ratio_matches(required, uploaded) ==
    LET required_keywords == required_keywords_of(required)
        matches == Cardinality({i \in 1..Len(required_keywords) :
                                    contains(required_keywords[i], uploaded)})
    IN  /\ Len(required_keywords) > 0
        /\ matches * 100 >= MatchRatioPercent * Len(required_keywords)

\* identifier_matches with the identifiers of the two labels taken from any
\* two groups
identifier_matches_across_groups(required, uploaded) ==
    \E g \in 1..Len(key_identifiers), h \in 1..Len(key_identifiers) :
        /\ any_keyword_in(key_identifiers[g], lower(required))
        /\ any_keyword_in(key_identifiers[h], uploaded)

\* the loop over key_identifiers.values() sets found for one uploaded label
identifier_matches(required, uploaded) ==
    \E g \in 1..Len(key_identifiers) :
        /\ any_keyword_in(key_identifiers[g], lower(required))
        /\ any_keyword_in(key_identifiers[g], uploaded)

\* label_matches without the loop over key_identifiers.values()
label_matches_by_ratio(required, uploaded) == ratio_matches(required, uploaded)

\* one turn of the loop over uploaded_lower: does this label set found
label_matches(required, uploaded) ==
    \/ ratio_matches(required, uploaded)
    \/ identifier_matches(required, uploaded)

\* the labels the knowledge base as constructed requires
RequiredLabels ==
    UNION {{official_adgm_documents[p].required_docs[i] :
                i \in 1..Len(official_adgm_documents[p].required_docs)} :
           p \in DOMAIN official_adgm_documents}

\* label_matches for each of them against each of these labels, evaluated once
LabelMatches ==
    [required \in RequiredLabels |->
        [uploaded \in DOMAIN BucketOfLabel |-> label_matches(required, lower(uploaded))]]

\* the loop over uploaded_lower, left at the first label that matches
required_found(required, uploaded_types) ==
    \E u \in 1..Len(uploaded_types) :
        IF required \in RequiredLabels /\ uploaded_types[u] \in DOMAIN BucketOfLabel
            THEN LabelMatches[required][uploaded_types[u]]
            ELSE label_matches(required, lower(uploaded_types[u]))

\* _find_missing_documents with each missing label inserted at the front
missing_in_reverse_order(uploaded_types, required_docs) ==
    LET missing ==
            SelectSeq(required_docs, LAMBDA required : ~required_found(required, uploaded_types))
    IN  [i \in 1..Len(missing) |-> missing[Len(missing) + 1 - i]]

_find_missing_documents(uploaded_types, required_docs) ==
    SelectSeq(required_docs, LAMBDA required : ~required_found(required, uploaded_types))

(***************************************************************************)
(* EnhancedADGMCorporateAgent._generate_recommendations.                   *)
(***************************************************************************)
ListedMissing == 3

\* _generate_recommendations with the recommendation of the process first
recommendations_process_first(issues, missing_docs, process_type) ==
    LET critical ==
            IF any_critical(issues)
                THEN <<Str("Address all critical jurisdiction and compliance issues immediately before submission")>>
                ELSE <<>>
        listed == SubSeq(missing_docs, 1, Min2(ListedMissing, Len(missing_docs)))
        missing ==
            IF Len(missing_docs) > 0
                THEN <<FStr("Prepare and submit {} missing required documents",
                            Len(missing_docs), <<>>, "")>>
                     \o [i \in 1..Len(listed) |-> FStr("  * {}", 0, listed[i], "")]
                ELSE <<>>
        specific ==
            IF process_type = "company_incorporation"
                THEN <<Str("Ensure all documents reference ADGM jurisdiction and use official templates")>>
            ELSE IF process_type = "employment_requirements"
                THEN <<Str("Use ADGM Standard Employment Contract Template 2024")>>
            ELSE <<>>
    IN  specific \o critical \o missing \o
        <<Str("Review all documents against official ADGM templates and guidelines"),
          Str("Consult qualified legal professionals for final validation"),
          Str("Re-run compliance check after addressing identified issues")>>

_generate_recommendations(issues, missing_docs, process_type) ==
    LET critical ==
            IF any_critical(issues)
                THEN <<Str("Address all critical jurisdiction and compliance issues immediately before submission")>>
                ELSE <<>>
        listed == SubSeq(missing_docs, 1, Min2(ListedMissing, Len(missing_docs)))
        missing ==
            IF Len(missing_docs) > 0
                THEN <<FStr("Prepare and submit {} missing required documents",
                            Len(missing_docs), <<>>, "")>>
                     \o [i \in 1..Len(listed) |-> FStr("  * {}", 0, listed[i], "")]
                ELSE <<>>
        specific ==
            IF process_type = "company_incorporation"
                THEN <<Str("Ensure all documents reference ADGM jurisdiction and use official templates")>>
            ELSE IF process_type = "employment_requirements"
                THEN <<Str("Use ADGM Standard Employment Contract Template 2024")>>
            ELSE <<>>
    IN  critical \o missing \o specific \o
        <<Str("Review all documents against official ADGM templates and guidelines"),
          Str("Consult qualified legal professionals for final validation"),
          Str("Re-run compliance check after addressing identified issues")>>

(***************************************************************************)
(* EnhancedADGMCorporateAgent._generate_executive_summary.  The summary is  *)
(* the record of what the f-string embeds.                                 *)
(***************************************************************************)
LowScoreLimit == 70

\* process_type.replace("_", " ").title()
process_title(process_type) ==
    CASE process_type = "company_incorporation" -> "Company Incorporation"
      [] process_type = "employment_requirements" -> "Employment Requirements"
      [] process_type = "licensing_requirements" -> "Licensing Requirements"
      [] process_type = "compliance_filings" -> "Compliance Filings"
      [] process_type = "data_protection" -> "Data Protection"

\* f"{score:.1f}": the score in tenths, rounded half to even
format_1f(score) ==
    LET q == score \div (Milli \div 10)
        r == score % (Milli \div 10)
        half == (Milli \div 10) \div 2
    IN  IF r > half \/ (r = half /\ q % 2 = 1) THEN q + 1 ELSE q

\* _generate_executive_summary with the overall assessment taken over the
\* issues alone
summary_assessing_issues_only(process_type, uploaded, required, missing, issues, score) ==
    LET risk_indicators ==
            (IF any_critical(issues) THEN <<Str("Critical compliance issues")>> ELSE <<>>)
         \o (IF missing > 0 THEN <<FStr("{} missing documents", missing, <<>>, "")>> ELSE <<>>)
         \o (IF score < LowScoreLimit * Milli THEN <<Str("Low compliance score")>> ELSE <<>>)
    IN  [process_name |-> process_title(process_type),
         uploaded |-> uploaded,
         required |-> required,
         score |-> format_1f(score),
         issues |-> Len(issues),
         high_priority |-> count_severity(issues, "Critical") + count_severity(issues, "High"),
         overall_assessment |-> _assess_risk_level(issues, <<>>),
         key_concerns |-> risk_indicators,
         next_steps |->
            IF Len(risk_indicators) > 0
                THEN "Address critical issues and complete missing documents before submission."
                ELSE "Review recommendations and proceed with submission preparation."]

_generate_executive_summary(process_type, uploaded, required, missing, issues, score) ==
    LET risk_indicators ==
            (IF any_critical(issues) THEN <<Str("Critical compliance issues")>> ELSE <<>>)
         \o (IF missing > 0 THEN <<FStr("{} missing documents", missing, <<>>, "")>> ELSE <<>>)
         \o (IF score < LowScoreLimit * Milli THEN <<Str("Low compliance score")>> ELSE <<>>)
    IN  [process_name |-> process_title(process_type),
         uploaded |-> uploaded,
         required |-> required,
         score |-> format_1f(score),
         issues |-> Len(issues),
         high_priority |-> count_severity(issues, "Critical") + count_severity(issues, "High"),
         overall_assessment |-> _assess_risk_level(issues, [i \in 1..missing |-> <<>>]),
         key_concerns |-> risk_indicators,
         next_steps |->
            IF Len(risk_indicators) > 0
                THEN "Address critical issues and complete missing documents before submission."
                ELSE "Review recommendations and proceed with submission preparation."]

(***************************************************************************)
(* EnhancedDocumentProcessor.extract_text_from_docx.  An uploaded file is   *)
(* [name, readable, paragraphs, tables]: "readable" is whether              *)
(* Document(file_path) opens it, "paragraphs" the texts of doc.paragraphs,  *)
(* "tables" the cell texts of doc.tables by table and row.                  *)
(***************************************************************************)
\* str(n) for n >= 0
RECURSIVE decimal(_)
decimal(n) ==
    LET digit == <<"0","1","2","3","4","5","6","7","8","9">>[(n % 10) + 1]
    IN  IF n < 10 THEN <<digit>> ELSE decimal(n \div 10) \o <<digit>>

NotAvailableText ==
    \* "Error: python-docx not available"
    <<"E","r","r","o","r",":"," ","p","y","t","h","o","n","-","d","o","c","x"," ","n","o",
      "t"," ","a","v","a","i","l","a","b","l","e">>
ReadErrorPrefix ==
    \* "Error reading document"
    <<"E","r","r","o","r"," ","r","e","a","d","i","n","g"," ","d","o","c","u","m","e","n",
      "t">>

\* paragraph_text without the line marker
paragraph_text_unmarked(paragraphs, i) ==
    IF strip(paragraphs[i]) # <<>> THEN paragraphs[i] \o <<"\n">> ELSE <<>>

\* the text of one paragraph: f"[LINE {i+1}] {paragraph.text}\n" if it is not blank
paragraph_text(paragraphs, i) ==
    IF strip(paragraphs[i]) # <<>>
        THEN <<"[","L","I","N","E"," ">> \o decimal(i) \o <<"]"," ">> \o paragraphs[i] \o <<"\n">>
        ELSE <<>>

\* the text of one table: f"{cell.text} " for each non-blank cell of each row,
\* then one "\n" after the last row
table_text(table) ==
    flatten([r \in 1..Len(table) |->
        flatten([c \in 1..Len(table[r]) |->
            IF strip(table[r][c]) # <<>> THEN table[r][c] \o <<" ">> ELSE <<>>])]) \o <<"\n">>

extract_text_from_docx(docx_available, file) ==
    IF ~docx_available THEN [text |-> NotAvailableText, metadata |-> <<>>]
    ELSE IF ~file.readable
        THEN [text |-> ReadErrorPrefix \o <<":"," ">> \o file.error, metadata |-> <<>>]
    ELSE LET text ==
                flatten([i \in 1..Len(file.paragraphs) |-> paragraph_text(file.paragraphs, i)])
                \o flatten([j \in 1..Len(file.tables) |-> table_text(file.tables[j])])
         IN  [text |-> strip(text),
              metadata |-> [paragraph_count |-> Len(file.paragraphs),
                            table_count |-> Len(file.tables),
                            word_count |-> Len(split(text))]]

(***************************************************************************)
(* The files a request can upload.  A file list holds handles: 0 for None,  *)
(* h for Uploads[h].                                                       *)
(***************************************************************************)
Uploads == <<
    \* aoa.docx: "Articles of Association" / "ADGM Courts"
    [name |-> <<"a","o","a",".","d","o","c","x">>,
     readable |-> TRUE,
     error |-> <<>>,
     paragraphs |-> << <<"A","r","t","i","c","l","e","s"," ","o","f"," ","A","s","s","o","c",
                        "i","a","t","i","o","n">>,
                      <<"A","D","G","M"," ","C","o","u","r","t","s">> >>,
     tables |-> <<>>],
    \* contract.docx: "Employment Contract" / "" / "Dubai Courts", and a table
    [name |-> <<"c","o","n","t","r","a","c","t",".","d","o","c","x">>,
     readable |-> TRUE,
     error |-> <<>>,
     paragraphs |-> << <<"E","m","p","l","o","y","m","e","n","t"," ","C","o","n","t","r","a",
                        "c","t">>,
                      <<>>,
                      <<"D","u","b","a","i"," ","C","o","u","r","t","s">> >>,
     tables |-> << << << <<"T","B","D">>, <<" ">> >> >> >>],
    \* broken.docx, which python-docx cannot open
    [name |-> <<"b","r","o","k","e","n",".","d","o","c","x">>,
     readable |-> FALSE,
     error |-> <<"F","i","l","e"," ","i","s"," ","n","o","t"," ","a"," ","z","i","p"," ",
                 "f","i","l","e">>,
     paragraphs |-> <<>>,
     tables |-> <<>>] >>

NoFile == 0
FileHandles == 1..Len(Uploads)

(***************************************************************************)
(* EnhancedADGMCorporateAgent.analyze_documents.                           *)
(***************************************************************************)
\* AnalysisResult with the time of the call written into the executive summary
AnalysisResult_dated_summary(process, documents_uploaded, required_documents, missing_documents, issues_found, compliance_score, risk_level, recommendations, executive_summary, timestamp) ==
    [process |-> process, documents_uploaded |-> documents_uploaded,
     required_documents |-> required_documents, missing_documents |-> missing_documents,
     issues_found |-> issues_found, compliance_score |-> compliance_score,
     risk_level |-> risk_level, recommendations |-> recommendations,
     executive_summary |-> [executive_summary EXCEPT !.next_steps = timestamp],
     timestamp |-> timestamp]

\* @dataclass AnalysisResult
AnalysisResult(process, documents_uploaded, required_documents, missing_documents, issues_found, compliance_score, risk_level, recommendations, executive_summary, timestamp) ==
    [process |-> process, documents_uploaded |-> documents_uploaded,
     required_documents |-> required_documents, missing_documents |-> missing_documents,
     issues_found |-> issues_found, compliance_score |-> compliance_score,
     risk_level |-> risk_level, recommendations |-> recommendations,
     executive_summary |-> executive_summary, timestamp |-> timestamp]

\* a status message: its text, and the session id and the date a message of
\* _generate_enhanced_status_message embeds ("" in the others)
Message(text, session_id, date) == [text |-> text, session_id |-> session_id, date |-> date]

NoFilesMessage ==
    Message("No files uploaded. Please select .docx documents for ADGM compliance analysis.",
            "", "")
NoValidMessage ==
    Message("No valid .docx documents could be processed. Please check file formats and try again.",
            "", "")

\* the body of "for file in files" for a file that is not None: what the
\* iteration adds to doc_types, processed_files and all_issues
process_file(k, docx_available, file) ==
    LET analysed(text, metadata, identified) ==
            [skipped |-> FALSE,
             doc_type |-> identified.doc_type,
             confidence |-> identified.confidence,
             issues |-> detect_red_flags(k, text, identified.doc_type, metadata)]
        of_text(text, metadata) ==
            IF startswith(text, ReadErrorPrefix)
                THEN [skipped |-> TRUE, doc_type |-> <<>>, confidence |-> 0, issues |-> <<>>]
                ELSE analysed(text, metadata,
                              identify_document_type(text, file.name, metadata))
        of_extracted(extracted) == of_text(extracted.text, extracted.metadata)
    IN  of_extracted(extract_text_from_docx(docx_available, file))

\* process_file for each upload under the knowledge base as constructed,
\* evaluated once
ProcessedUploads ==
    [d \in BOOLEAN |-> [h \in 1..Len(Uploads) |-> process_file(KnowledgeBase, d, Uploads[h])]]

processed(k, docx_available, h) ==
    IF k = KnowledgeBase THEN ProcessedUploads[docx_available][h]
    ELSE process_file(k, docx_available, Uploads[h])

\* all_issues kept in one list of the agent: the issues another request has
\* found so far are in it too
extend_shared_issues(cs, c, issues) ==
    LET others == {d \in DOMAIN cs : d # c}
        found == IF others = {} THEN <<>> ELSE cs[CHOOSE d \in others : TRUE].all_issues
    IN  found \o cs[c].all_issues \o issues

\* all_issues.extend(issues) in the call of request c
extend_issues(cs, c, issues) == cs[c].all_issues \o issues

\* the part of analyze_documents after the loop, for a call that processed a file
analysis_result(k, doc_types_in, processed_files, all_issues, now) ==
    LET scored(process_type, required_docs, missing_docs, compliance_score) ==
            AnalysisResult(
                process_type, Len(processed_files), Len(required_docs), missing_docs,
                all_issues, compliance_score,
                _assess_risk_level(all_issues, missing_docs),
                _generate_recommendations(all_issues, missing_docs, process_type),
                _generate_executive_summary(process_type, Len(processed_files),
                                            Len(required_docs), Len(missing_docs),
                                            all_issues, compliance_score),
                now)
        checked(process_type, required_docs, missing_docs) ==
            scored(process_type, required_docs, missing_docs,
                   _calculate_enhanced_compliance_score(all_issues, Len(processed_files),
                                                        Len(missing_docs)))
        of_process(process_type, required_docs) ==
            checked(process_type, required_docs,
                    _find_missing_documents(doc_types_in, required_docs))
        of_types(process_type) ==
            of_process(process_type, get_requirements_for_process(k, process_type))
    IN  of_types(_determine_process_type(doc_types_in, <<>>))

\* _generate_enhanced_status_message(result)
_generate_enhanced_status_message(session_id, result, now) ==
    Message("ADGM Compliance Analysis Results", session_id, now)

\* the readings of datetime.now() that calls can get
Clock == {"t1", "t2"}

\* the requests that can be in progress at once
Requests == {"r1", "r2"}

IdleCall ==
    [pc |-> "idle", files |-> <<>>, i |-> 0, all_issues |-> <<>>, doc_types |-> <<>>,
     processed_files |-> <<>>, result |-> <<>>, status_msg |-> Message("", "", "")]

\* analyze_documents(files) is called: "if not files" returns at once
AnalyzeStart(c, files) ==
    /\ calls[c].pc = "idle"
    /\ calls' = [calls EXCEPT ![c] =
            IF Len(files) = 0
                THEN [IdleCall EXCEPT !.pc = "done", !.status_msg = NoFilesMessage]
                ELSE [IdleCall EXCEPT !.pc = "loop", !.files = files, !.i = 1]]
    /\ UNCHANGED <<DOCX_AVAILABLE, kb, agent, probe>>

\* one iteration of "for file in files"
AnalyzeFile(c) ==
    /\ calls[c].pc = "loop"
    /\ calls[c].i <= Len(calls[c].files)
    /\ LET file == calls[c].files[calls[c].i]
           iteration(r) ==
               IF r.skipped
                   THEN [calls EXCEPT ![c].i = @ + 1]
                   ELSE [calls EXCEPT
                            ![c].i = @ + 1,
                            ![c].doc_types = Append(@, r.doc_type),
                            ![c].processed_files = Append(@, Uploads[file].name),
                            ![c].all_issues = extend_issues(calls, c, r.issues)]
       IN  IF file = NoFile
               THEN calls' = [calls EXCEPT ![c].i = @ + 1]
               ELSE calls' = iteration(processed(kb, DOCX_AVAILABLE, file))
    /\ UNCHANGED <<DOCX_AVAILABLE, kb, agent, probe>>

\* the loop is over: "if not processed_files" returns None, else the result
AnalyzeFinish(c, now) ==
    /\ calls[c].pc = "loop"
    /\ calls[c].i > Len(calls[c].files)
    /\ LET returned(result) ==
               [calls[c] EXCEPT
                    !.pc = "done",
                    !.result = <<result>>,
                    !.status_msg = _generate_enhanced_status_message(agent.session_id,
                                                                     result, now)]
       IN  calls' = [calls EXCEPT ![c] =
               IF Len(calls[c].processed_files) = 0
                   THEN [@ EXCEPT !.pc = "done", !.result = <<>>,
                                  !.status_msg = NoValidMessage]
                   ELSE returned(analysis_result(kb, calls[c].doc_types,
                                                 calls[c].processed_files,
                                                 calls[c].all_issues, now))]
    /\ UNCHANGED <<DOCX_AVAILABLE, kb, agent, probe>>

\* the caller has taken (result, status_msg); the request is over
AnalyzeReturn(c) ==
    /\ calls[c].pc = "done"
    /\ calls' = [calls EXCEPT ![c] = IdleCall]
    /\ UNCHANGED <<DOCX_AVAILABLE, kb, agent, probe>>

(***************************************************************************)
(* The agent: EnhancedADGMCorporateAgent.__init__ and                      *)
(* EnhancedDocumentProcessor.__init__, then any number of requests.        *)
(***************************************************************************)
MaxFiles == 2           \* files in one request

RECURSIVE SeqsUpTo(_, _)
SeqsUpTo(S, n) ==
    IF n = 0 THEN {<<>>}
    ELSE LET shorter == SeqsUpTo(S, n - 1)
         IN  shorter \cup {Append(s, x) : s \in shorter, x \in S}

\* the file lists of a request: up to MaxFiles uploads, or a lone None
FileLists == SeqsUpTo(FileHandles, MaxFiles) \cup {<<NoFile>>}

AgentInit == [session_id |-> "session", processed_docs |-> <<>>]

NoProbe == [fn |-> "none"]

Init ==
    /\ DOCX_AVAILABLE \in BOOLEAN
    /\ kb = KnowledgeBase
    /\ agent = AgentInit
    /\ calls = [c \in Requests |-> IdleCall]
    /\ probe = NoProbe

Next ==
    \E c \in Requests :
        \/ \E files \in FileLists : AnalyzeStart(c, files)
        \/ AnalyzeFile(c)
        \/ \E now \in Clock : AnalyzeFinish(c, now)
        \/ AnalyzeReturn(c)

Spec == Init /\ [][Next]_vars

(***************************************************************************)
(* The scoring functions on their own: Init draws the arguments, the       *)
(* actions call _calculate_enhanced_compliance_score and                   *)
(* _assess_risk_level on them and keep what they return.                   *)
(***************************************************************************)
\* a severity outside the four the processor produces
OtherSeverity == "Info"

\* issue.confidence values: 0.0, 0.85 and 1.0
ConfidenceSamples == <<0, MissingReferenceConfidence, Milli>>

sample_issue(severity, confidence) ==
    DocumentIssue(UnknownDocumentType, Str("Jurisdiction Clause"), Str("issue"), severity,
                  Str("suggestion"), "reference", 0, confidence, "category")

repeat(x, n) == [i \in 1..n |-> x]

\* a list with the given number of issues of each severity, their confidences
\* taken in turn from ConfidenceSamples, starting at "first"
sample_issues(critical, high, medium, low, other, first) ==
    LET severities ==
            repeat("Low", low) \o repeat("Critical", critical) \o repeat(OtherSeverity, other)
                \o repeat("Medium", medium) \o repeat("High", high)
    IN  [i \in 1..Len(severities) |->
            sample_issue(severities[i],
                         ConfidenceSamples[((i + first) % Len(ConfidenceSamples)) + 1])]

\* the first n labels of a required_docs list, as a missing_docs list
sample_missing(n) == SubSeq(official_adgm_documents.company_incorporation.required_docs, 1, n)

InitScore ==
    /\ DOCX_AVAILABLE = TRUE
    /\ kb = KnowledgeBase
    /\ agent = AgentInit
    /\ calls = [c \in Requests |-> IdleCall]
    /\ \E critical \in 0..MaxPerSeverity, high \in 0..MaxPerSeverity,
          medium \in 0..MaxPerSeverity, low \in 0..MaxPerSeverity, other \in 0..1,
          first \in 1..Len(ConfidenceSamples), num_docs \in 0..MaxDocs,
          num_missing \in 0..MaxMissing :
            probe = [fn |-> "score",
                     issues |-> sample_issues(critical, high, medium, low, other, first),
                     num_docs |-> num_docs,
                     missing_docs |-> sample_missing(num_missing),
                     score |-> <<>>,
                     risk |-> <<>>]

\* compliance_score = self._calculate_enhanced_compliance_score(...)
CalculateScore ==
    /\ probe.score = <<>>
    /\ probe' = [probe EXCEPT !.score =
            <<_calculate_enhanced_compliance_score(probe.issues, probe.num_docs,
                                                   Len(probe.missing_docs))>>]
    /\ UNCHANGED <<DOCX_AVAILABLE, kb, agent, calls>>

\* risk_level = self._assess_risk_level(...)
AssessRisk ==
    /\ probe.risk = <<>>
    /\ probe' = [probe EXCEPT !.risk = <<_assess_risk_level(probe.issues, probe.missing_docs)>>]
    /\ UNCHANGED <<DOCX_AVAILABLE, kb, agent, calls>>

NextScore == CalculateScore \/ AssessRisk

SpecScore == InitScore /\ [][NextScore]_vars

(***************************************************************************)
(* The processor's functions on their own: Init draws a document text and  *)
(* a file name, the actions call identify_document_type and               *)
(* detect_red_flags on them and keep what they return.                     *)
(***************************************************************************)
MaxFragments == 2       \* fragments in one document text

\* pieces of document text
Fragments == <<
    \* "Dubai Courts "
    <<"D","u","b","a","i"," ","C","o","u","r","t","s"," ">>,
    \* "ADGM "
    <<"A","D","G","M"," ">>,
    \* "Articles of Association "
    <<"A","r","t","i","c","l","e","s"," ","o","f"," ","A","s","s","o","c","i","a","t","i",
      "o","n"," ">>,
    \* "salary "
    <<"s","a","l","a","r","y"," ">>,
    \* "article 12 "
    <<"a","r","t","i","c","l","e"," ","1","2"," ">>,
    \* "...insert name... "
    <<".",".",".","i","n","s","e","r","t"," ","n","a","m","e",".",".","."," ">>,
    \* "signature: "
    <<"s","i","g","n","a","t","u","r","e",":"," ">>,
    \* "quorum if applicable "
    <<"q","u","o","r","u","m"," ","i","f"," ","a","p","p","l","i","c","a","b","l","e"," ">>,
    \* "\n"
    <<"\n">>,
    \* "UAE Federal Court "
    <<"U","A","E"," ","F","e","d","e","r","a","l"," ","C","o","u","r","t"," ">> >>

Filenames == <<
    \* "AoA.docx"
    <<"A","o","A",".","d","o","c","x">>,
    \* "salary.docx"
    <<"s","a","l","a","r","y",".","d","o","c","x">>,
    \* "file.docx"
    <<"f","i","l","e",".","d","o","c","x">> >>

\* a text longer than the 500 characters from which check_jurisdiction_compliance
\* asks for a reference to ADGM
LongText == [i \in 1..(MinLengthForReference + 1) |-> IF i % 2 = 1 THEN "x" ELSE " "]

\* "...insert name...", a text that is a placeholder and nothing else
PlaceholderText == <<".",".",".","i","n","s","e","r","t"," ","n","a","m","e",".",".",".">>

\* "ADGM", n times "-", "TBD": a match with "ADGM" n characters before it
far_text(n) ==
    [i \in 1..(n + 7) |->
        IF i <= 4 THEN <<"A","D","G","M">>[i]
        ELSE IF i <= n + 4 THEN "-"
        ELSE <<"T","B","D">>[i - (n + 4)]]

\* the match of "TBD" with the "M" of "ADGM" 100 characters before it, in the
\* context, and 101 characters before it, outside
WindowTexts == {far_text(ContextWindow - 4), far_text(ContextWindow - 3)}

\* the texts of up to MaxFragments fragments, LongText, PlaceholderText and
\* WindowTexts
Texts ==
    {flatten([i \in 1..Len(fs) |-> Fragments[fs[i]]]) :
        fs \in SeqsUpTo(1..Len(Fragments), MaxFragments)}
            \cup {LongText, PlaceholderText} \cup WindowTexts

InitText ==
    /\ DOCX_AVAILABLE = TRUE
    /\ kb = KnowledgeBase
    /\ agent = AgentInit
    /\ calls = [c \in Requests |-> IdleCall]
    /\ \E text \in Texts, f \in 1..Len(Filenames) :
            probe = [fn |-> "text", text |-> text, filename |-> Filenames[f],
                     identified |-> <<>>, issues |-> <<>>, risk |-> <<>>]

\* doc_type, confidence = self.processor.identify_document_type(text, file.name, metadata)
IdentifyType ==
    /\ probe.identified = <<>>
    /\ probe' = [probe EXCEPT !.identified =
            <<identify_document_type(probe.text, probe.filename, <<>>)>>]
    /\ UNCHANGED <<DOCX_AVAILABLE, kb, agent, calls>>

\* issues = self.processor.detect_red_flags(text, doc_type, metadata)
DetectFlags ==
    /\ probe.identified # <<>>
    /\ probe.issues = <<>>
    /\ probe' = [probe EXCEPT !.issues =
            <<detect_red_flags(kb, probe.text, probe.identified[1].doc_type, <<>>)>>]
    /\ UNCHANGED <<DOCX_AVAILABLE, kb, agent, calls>>

\* risk_level = self._assess_risk_level(all_issues, missing_docs), on the issues
\* of this text with no document missing
AssessFlagged ==
    /\ probe.issues # <<>>
    /\ probe.risk = <<>>
    /\ probe' = [probe EXCEPT !.risk =
            <<[missing_docs |-> <<>>, tier |-> _assess_risk_level(probe.issues[1], <<>>)]>>]
    /\ UNCHANGED <<DOCX_AVAILABLE, kb, agent, calls>>

NextText == IdentifyType \/ DetectFlags \/ AssessFlagged

SpecText == InitText /\ [][NextText]_vars


(***************************************************************************)
(* The score of two issue lists that differ in one severity: Init draws    *)
(* the arguments and the Low issue whose severity is raised to Critical,   *)
(* the actions call _calculate_enhanced_compliance_score on the list as    *)
(* drawn and on the list with the raised severity.                         *)
(***************************************************************************)
\* the issue list with the severity of issue i replaced
with_severity(issues, i, severity) == [issues EXCEPT ![i].severity = severity]

InitRaise ==
    /\ DOCX_AVAILABLE = TRUE
    /\ kb = KnowledgeBase
    /\ agent = AgentInit
    /\ calls = [c \in Requests |-> IdleCall]
    /\ \E critical \in 0..1, high \in 0..MaxPerSeverity, medium \in 0..MaxPerSeverity,
          low \in 1..MaxPerSeverity, other \in 0..1,
          first \in 1..Len(ConfidenceSamples), num_docs \in 0..MaxDocs,
          num_missing \in 0..MaxMissing :
            \E i \in 1..low :
                LET issues == sample_issues(critical, high, medium, low, other, first)
                IN  probe = [fn |-> "raise",
                             issues |-> issues,
                             raised |-> with_severity(issues, i, "Critical"),
                             num_docs |-> num_docs,
                             missing_docs |-> sample_missing(num_missing),
                             score |-> <<>>,
                             raised_score |-> <<>>]

\* _calculate_enhanced_compliance_score on the list with the raised severity
CalculateRaisedScore ==
    /\ probe.score # <<>>
    /\ probe.raised_score = <<>>
    /\ probe' = [probe EXCEPT !.raised_score =
            <<_calculate_enhanced_compliance_score(probe.raised, probe.num_docs,
                                                   Len(probe.missing_docs))>>]
    /\ UNCHANGED <<DOCX_AVAILABLE, kb, agent, calls>>

NextRaise == CalculateScore \/ CalculateRaisedScore

SpecRaise == InitRaise /\ [][NextRaise]_vars

(***************************************************************************)
(* _find_missing_documents on its own: Init draws the labels of the        *)
(* uploaded documents and a list of required labels, the action calls      *)
(* _find_missing_documents on them and keeps what it returns.              *)
(***************************************************************************)
MaxUploaded == 2        \* labels in uploaded_types

\* the required_docs lists of the knowledge base and their initial parts
RequiredLists ==
    UNION {{SubSeq(official_adgm_documents[p].required_docs, 1, n) :
                n \in 0..Len(official_adgm_documents[p].required_docs)} :
           p \in DOMAIN official_adgm_documents}

InitMissing ==
    /\ DOCX_AVAILABLE = TRUE
    /\ kb = KnowledgeBase
    /\ agent = AgentInit
    /\ calls = [c \in Requests |-> IdleCall]
    /\ \E uploaded_types \in SeqsUpTo(KnownLabels \cup SampleLabels, MaxUploaded),
          required_docs \in RequiredLists :
            probe = [fn |-> "missing", uploaded_types |-> uploaded_types,
                     required_docs |-> required_docs, missing |-> <<>>]

\* missing_docs = self._find_missing_documents(doc_types, required_docs)
FindMissing ==
    /\ probe.missing = <<>>
    /\ probe' = [probe EXCEPT !.missing =
            <<_find_missing_documents(probe.uploaded_types, probe.required_docs)>>]
    /\ UNCHANGED <<DOCX_AVAILABLE, kb, agent, calls>>

NextMissing == FindMissing

SpecMissing == InitMissing /\ [][NextMissing]_vars

(***************************************************************************)
(* check_jurisdiction_compliance on its own: Init draws a text, of a few   *)
(* phrases, as it is or filled up to 500 or to 501 characters, the action  *)
(* calls check_jurisdiction_compliance on it and keeps what it returns.    *)
(***************************************************************************)
MaxPhrases == 2         \* phrases in one text

Phrases == <<
    \* "Dubai Courts "
    <<"D","u","b","a","i"," ","C","o","u","r","t","s"," ">>,
    \* "UAE CIVIL CODE "
    <<"U","A","E"," ","C","I","V","I","L"," ","C","O","D","E"," ">>,
    \* "Federal Labour Law "
    <<"F","e","d","e","r","a","l"," ","L","a","b","o","u","r"," ","L","a","w"," ">>,
    \* "ADGM "
    <<"A","D","G","M"," ">>,
    \* "adgm "
    <<"a","d","g","m"," ">>,
    \* "Abu Dhabi Global Market "
    <<"A","b","u"," ","D","h","a","b","i"," ","G","l","o","b","a","l"," ","M","a","r","k","e","t"," ">> >>

\* the text filled up with "x" to n characters, as it is when it is longer
filled(text, n) == [i \in 1..Max2(n, Len(text)) |-> IF i <= Len(text) THEN text[i] ELSE "x"]

InitJurisdiction ==
    /\ DOCX_AVAILABLE = TRUE
    /\ kb = KnowledgeBase
    /\ agent = AgentInit
    /\ calls = [c \in Requests |-> IdleCall]
    /\ \E ps \in SeqsUpTo(1..Len(Phrases), MaxPhrases),
          n \in {0, MinLengthForReference, MinLengthForReference + 1} :
            probe = [fn |-> "jurisdiction",
                     text |-> filled(flatten([i \in 1..Len(ps) |-> Phrases[ps[i]]]), n),
                     findings |-> <<>>]

\* jurisdiction_issues = self.kb.check_jurisdiction_compliance(text)
CheckJurisdiction ==
    /\ probe.findings = <<>>
    /\ probe' = [probe EXCEPT !.findings = <<check_jurisdiction_compliance(kb, probe.text)>>]
    /\ UNCHANGED <<DOCX_AVAILABLE, kb, agent, calls>>

NextJurisdiction == CheckJurisdiction

SpecJurisdiction == InitJurisdiction /\ [][NextJurisdiction]_vars

(***************************************************************************)
(* The annotated text of one uploaded document and its red flags: the body *)
(* of the loop of analyze_documents on a readable file (SpecLines).        *)
(***************************************************************************)
MaxParagraphs == 2      \* paragraphs in one document
MaxTables == 1          \* tables in one document

\* paragraph.text of a paragraph: "", "ok", "TBD", "pending\nTBD" (a line
\* break inside the paragraph)
ParagraphSamples == {
    <<>>,
    <<"o","k">>,
    <<"T","B","D">>,
    <<"p","e","n","d","i","n","g","\n","T","B","D">> }

\* the rows of cell texts of a table: one row "TBD"; the rows "ok" and "TBD", ""
TableSamples == {
    << << <<"T","B","D">> >> >>,
    << << <<"o","k">> >>, << <<"T","B","D">>, <<>> >> >> }

InitLines ==
    /\ DOCX_AVAILABLE = TRUE
    /\ kb = KnowledgeBase
    /\ agent = AgentInit
    /\ calls = [c \in Requests |-> IdleCall]
    /\ \E paragraphs \in SeqsUpTo(ParagraphSamples, MaxParagraphs),
          tables \in SeqsUpTo(TableSamples, MaxTables) :
            probe = [fn |-> "lines",
                     file |-> [name |-> Filenames[3], readable |-> TRUE, error |-> <<>>,
                               paragraphs |-> paragraphs, tables |-> tables],
                     extracted |-> <<>>, reviewed |-> <<>>]

\* text, metadata = self.processor.extract_text_from_docx(file.name)
ExtractText ==
    /\ probe.extracted = <<>>
    /\ probe' = [probe EXCEPT !.extracted =
            <<extract_text_from_docx(DOCX_AVAILABLE, probe.file)>>]
    /\ UNCHANGED <<DOCX_AVAILABLE, kb, agent, calls>>

\* the rest of the iteration: identify_document_type and detect_red_flags
ReviewText ==
    /\ probe.extracted # <<>>
    /\ probe.reviewed = <<>>
    /\ probe' = [probe EXCEPT !.reviewed =
            <<process_file(kb, DOCX_AVAILABLE, probe.file)>>]
    /\ UNCHANGED <<DOCX_AVAILABLE, kb, agent, calls>>

NextLines == ExtractText \/ ReviewText

SpecLines == InitLines /\ [][NextLines]_vars

(***************************************************************************)
(* The part of analyze_documents after the loop on its own: Init draws the *)
(* labels and the issues the loop has collected, the actions call          *)
(* _determine_process_type on the labels and build the AnalysisResult      *)
(* (SpecResult).                                                           *)
(***************************************************************************)
\* all_issues after the loop: no issue, one Critical, three High, six Low,
\* one Medium
IssueLists == {
    sample_issues(0, 0, 0, 0, 0, 0),
    sample_issues(1, 0, 0, 0, 0, 0),
    sample_issues(0, 3, 0, 0, 0, 0),
    sample_issues(0, 0, 0, 6, 0, 0),
    sample_issues(0, 0, 1, 0, 0, 0) }

\* the labels of a batch with one document of each type of
\* identify_document_type other than "Employment Contract"
CompleteBatch ==
    SelectSeq([i \in 1..Len(doc_types) |-> doc_types[i].name],
              LAMBDA label : label # EmploymentContract)

InitResult ==
    /\ DOCX_AVAILABLE = TRUE
    /\ kb = KnowledgeBase
    /\ agent = AgentInit
    /\ calls = [c \in Requests |-> IdleCall]
    /\ \E doc_types_in \in SeqsUpTo(KnownLabels \cup ProcessLabels, MaxUploaded)
                                \cup {CompleteBatch},
          all_issues \in IssueLists :
            probe = [fn |-> "result", doc_types |-> doc_types_in, all_issues |-> all_issues,
                     process |-> <<>>, result |-> <<>>]

\* process_type = self._determine_process_type(doc_types, analysis_metadata)
DetermineProcess ==
    /\ probe.process = <<>>
    /\ probe' = [probe EXCEPT !.process = <<_determine_process_type(probe.doc_types, <<>>)>>]
    /\ UNCHANGED <<DOCX_AVAILABLE, kb, agent, calls>>

\* analyze_documents from "if not processed_files" on, every file of the
\* request having been processed
FinishAnalysis(now) ==
    /\ probe.doc_types # <<>>
    /\ probe.result = <<>>
    /\ probe' = [probe EXCEPT !.result =
            <<analysis_result(kb, probe.doc_types,
                              [i \in 1..Len(probe.doc_types) |-> Filenames[3]],
                              probe.all_issues, now)>>]
    /\ UNCHANGED <<DOCX_AVAILABLE, kb, agent, calls>>

NextResult == DetermineProcess \/ \E now \in Clock : FinishAnalysis(now)

SpecResult == InitResult /\ [][NextResult]_vars

(***************************************************************************)
(* EnhancedADGMCorporateAgent.process_and_review_documents, the entry      *)
(* point of the Gradio interface: analyze_documents, then the reviewed     *)
(* copy of the first file, saved under outputs/ (SpecReview).  A reviewed  *)
(* document is the record of what its inserted metadata paragraph embeds   *)
(* from the issues; "outputs" holds the saved documents by path.           *)
(***************************************************************************)
\* EnhancedDocumentProcessor._calculate_risk_level
_calculate_risk_level(issues) ==
    IF count_severity(issues, "Critical") > 0 THEN "HIGH RISK"
    ELSE IF count_severity(issues, "High") > 0 THEN "MEDIUM RISK"
    ELSE IF count_severity(issues, "Medium") > 0 THEN "LOW RISK"
    ELSE "MINIMAL RISK"

\* EnhancedDocumentProcessor.create_enhanced_reviewed_document: <<>> for
\* False, else the document that doc.save(output_path) writes
create_enhanced_reviewed_document(docx_available, file, issues) ==
    IF ~docx_available \/ ~file.readable \/ Len(file.paragraphs) = 0 THEN <<>>
    ELSE <<[source |-> file.name,
            total_issues |-> Len(issues),
            risk_level |-> _calculate_risk_level(issues),
            compliance_status |-> IF Len(issues) > 0 THEN "NEEDS ATTENTION" ELSE "COMPLIANT"]>>

\* Path(name).stem
stem(name) ==
    LET dots == {i \in 2..Len(name) : name[i] = "."}
    IN  IF dots = {} THEN name ELSE SubSeq(name, 1, SetMax(dots) - 1)

\* the file lists of the requests: aoa.docx; contract.docx; both; None and
\* aoa.docx; broken.docx and aoa.docx
ReviewLists == {<<1>>, <<2>>, <<1, 2>>, <<NoFile, 1>>, <<3, 1>>}

NoReview == [pc |-> "none", output_path |-> <<>>, reviewed_file_path |-> <<>>]

InitReview ==
    /\ DOCX_AVAILABLE \in BOOLEAN
    /\ kb = KnowledgeBase
    /\ agent = AgentInit
    /\ calls = [c \in Requests |-> IdleCall]
    /\ probe = [fn |-> "review", outputs |-> {}, reviews |-> [c \in Requests |-> NoReview]]

\* process_and_review_documents(files) is called with files and calls
\* analyze_documents(files)
ReviewStart(c, files) ==
    /\ Len(files) > 0
    /\ probe.reviews[c].pc = "none"
    /\ AnalyzeStart(c, files)

\* analyze_documents has returned: None ends the request, and so does a
\* first file that is None; else the output path is built from the stem of
\* the first file's name and the time read to the second
ReviewDocument(c, now) ==
    /\ calls[c].pc = "done"
    /\ probe.reviews[c].pc = "none"
    /\ probe' = [probe EXCEPT !.reviews[c] =
            IF calls[c].result = <<>> \/ calls[c].files[1] = NoFile
                THEN [NoReview EXCEPT !.pc = "returned"]
                ELSE [NoReview EXCEPT
                        !.pc = "create",
                        !.output_path = <<[base_name |-> stem(Uploads[calls[c].files[1]].name),
                                           timestamp |-> now]>>]]
    /\ UNCHANGED <<DOCX_AVAILABLE, kb, agent, calls>>

\* success = self.processor.create_enhanced_reviewed_document(files[0].name,
\* result.issues_found, output_path), which saves the document at output_path
CreateReviewed(c) ==
    /\ probe.reviews[c].pc = "create"
    /\ LET saved(path, document) ==
               [probe EXCEPT
                    !.outputs = {o \in @ : o.path # path}
                                    \cup {[path |-> path, document |-> document[1]]},
                    !.reviews[c] = [@ EXCEPT !.pc = "returned", !.reviewed_file_path = <<path>>]]
           created(path, document) ==
               IF document = <<>>
                   THEN [probe EXCEPT !.reviews[c] = [@ EXCEPT !.pc = "returned"]]
                   ELSE saved(path, document)
       IN  probe' = created(probe.reviews[c].output_path[1],
                            create_enhanced_reviewed_document(
                                DOCX_AVAILABLE, Uploads[calls[c].files[1]],
                                calls[c].result[1].issues_found))
    /\ UNCHANGED <<DOCX_AVAILABLE, kb, agent, calls>>

\* return status_msg, reviewed_file_path, json_report
ReviewReturn(c) ==
    /\ probe.reviews[c].pc = "returned"
    /\ calls' = [calls EXCEPT ![c] = IdleCall]
    /\ probe' = [probe EXCEPT !.reviews[c] = NoReview]
    /\ UNCHANGED <<DOCX_AVAILABLE, kb, agent>>

NextReview ==
    \E c \in Requests :
        \/ \E files \in ReviewLists : ReviewStart(c, files)
        \/ AnalyzeFile(c)
        \/ \E now \in Clock : AnalyzeFinish(c, now)
        \/ \E now \in Clock : ReviewDocument(c, now)
        \/ CreateReviewed(c)
        \/ ReviewReturn(c)

SpecReview == InitReview /\ [][NextReview]_vars

(***************************************************************************)
(* Properties of the compliance score and the risk tier (SpecScore).       *)
(***************************************************************************)
\* C1: whatever the issues (any severities, confidences in [0,1]), the number
\* of documents and the number of missing documents,
\* _calculate_enhanced_compliance_score returns a value in [0,100], and
\* exactly 0 when the number of documents is 0.
C1_ScoreInRange ==
    probe.score # <<>> =>
        /\ probe.score[1] >= 0
        /\ probe.score[1] <= 100 * Milli
        /\ (probe.num_docs = 0 => probe.score[1] = 0)

\* C1 witness: the score of no documents, with issues and missing documents, is 0
C1_Witness ==
    /\ probe.score = <<0>>
    /\ probe.num_docs = 0
    /\ Len(probe.issues) > 0
    /\ Len(probe.missing_docs) > 0

C2_Weight(severity) ==
    CASE severity = "Critical" -> 25
      [] severity = "High" -> 15
      [] severity = "Medium" -> 8
      [] severity = "Low" -> 3
      [] OTHER -> 5

\* the sum over the issues of weight(severity) x confidence, in thousandths
RECURSIVE C2_Penalty(_)
C2_Penalty(issues) ==
    IF issues = <<>> THEN 0
    ELSE C2_Weight(Head(issues).severity) * Head(issues).confidence + C2_Penalty(Tail(issues))

C2_Clamp(x) == IF x < 0 THEN 0 ELSE IF x > 100 * Milli THEN 100 * Milli ELSE x

\* C2: for one document or more the score is
\* clamp[0,100](100 - sum of weight(severity) x confidence - 15 x missing
\* + 5 if nothing is missing + 5 if no issue is Critical), with weights
\* Critical=25, High=15, Medium=8, Low=3 and 5 for another severity; one
\* document without issues and without missing documents scores exactly 100.
C2_ScoreFormula ==
    (probe.score # <<>> /\ probe.num_docs > 0) =>
        LET missing == Len(probe.missing_docs)
            no_critical == \A i \in 1..Len(probe.issues) : probe.issues[i].severity # "Critical"
            raw == 100 * Milli - C2_Penalty(probe.issues) - 15 * Milli * missing
                    + (IF missing = 0 THEN 5 * Milli ELSE 0)
                    + (IF no_critical THEN 5 * Milli ELSE 0)
        IN  /\ probe.score[1] = C2_Clamp(raw)
            /\ (probe.num_docs = 1 /\ probe.issues = <<>> /\ missing = 0
                    => probe.score[1] = 100 * Milli)

\* C2 witness: a score strictly inside (0,100) for a list with an issue of
\* each severity and a missing document
C2_Witness ==
    /\ probe.score # <<>>
    /\ probe.num_docs > 0
    /\ probe.score[1] > 0
    /\ probe.score[1] < 100 * Milli
    /\ Len(probe.missing_docs) > 0
    /\ \A severity \in Severities \cup {OtherSeverity} :
            \E i \in 1..Len(probe.issues) :
                probe.issues[i].severity = severity /\ probe.issues[i].confidence > 0

\* C3: _assess_risk_level is an ordered cascade: HIGH RISK if an issue is
\* Critical or more than 2 documents are missing; otherwise MEDIUM RISK if
\* more than 2 issues are High or a document is missing; otherwise LOW RISK
\* if there are more than 5 issues; otherwise MINIMAL RISK.  One tier is
\* returned for every input and the first condition that holds decides.
C3_RiskCascade ==
    probe.risk # <<>> =>
        LET n_critical == Cardinality({i \in 1..Len(probe.issues) :
                                            probe.issues[i].severity = "Critical"})
            n_high == Cardinality({i \in 1..Len(probe.issues) :
                                        probe.issues[i].severity = "High"})
            n_missing == Len(probe.missing_docs)
            first == n_critical >= 1 \/ n_missing > 2
            second == n_high > 2 \/ n_missing >= 1
            third == Len(probe.issues) > 5
            tier == probe.risk[1]
        IN  /\ tier \in {"HIGH RISK", "MEDIUM RISK", "LOW RISK", "MINIMAL RISK"}
            /\ (tier = "HIGH RISK") <=> first
            /\ (tier = "MEDIUM RISK") <=> (~first /\ second)
            /\ (tier = "LOW RISK") <=> (~first /\ ~second /\ third)
            /\ (tier = "MINIMAL RISK") <=> (~first /\ ~second /\ ~third)

\* C3 witness: exactly 2 documents are missing, there are more than 5 issues,
\* none Critical and at most 2 High, and the tier is MEDIUM RISK: the first
\* condition fails, the second decides before the third
C3_Witness ==
    /\ probe.risk = <<"MEDIUM RISK">>
    /\ Len(probe.missing_docs) = 2
    /\ Len(probe.issues) > 5
    /\ \A i \in 1..Len(probe.issues) : probe.issues[i].severity # "Critical"
    /\ Cardinality({i \in 1..Len(probe.issues) : probe.issues[i].severity = "High"}) <= 2

(***************************************************************************)
(* Properties of the processor's functions (SpecText).                     *)
(***************************************************************************)
\* C5: every confidence identify_document_type returns lies in [0,1], and
\* every DocumentIssue of detect_red_flags, of the jurisdiction pass and of
\* the pattern pass, has a severity in {Critical, High, Medium, Low} and a
\* confidence in [0,1].
C5_ConfidenceAndSeverity ==
    /\ probe.identified # <<>> =>
            /\ probe.identified[1].confidence >= 0
            /\ probe.identified[1].confidence <= 1 * Milli
    /\ probe.issues # <<>> =>
            \A i \in 1..Len(probe.issues[1]) :
                /\ probe.issues[1][i].severity \in {"Critical", "High", "Medium", "Low"}
                /\ probe.issues[1][i].confidence >= 0
                /\ probe.issues[1][i].confidence <= 1 * Milli

\* C5 witness: a text for which both passes report: the jurisdiction pass an
\* issue without a line, the pattern pass an issue at a line, both with a
\* confidence above 0.9
C5_Witness ==
    /\ probe.identified # <<>>
    /\ probe.issues # <<>>
    /\ \E i, j \in 1..Len(probe.issues[1]) :
            /\ probe.issues[1][i].section.fmt = "Jurisdiction Clause"
            /\ probe.issues[1][i].confidence > 900
            /\ probe.issues[1][j].line_number >= 1
            /\ probe.issues[1][j].confidence > 900

\* the number of positions of s at which the pattern matches
C6_Occurrences(pattern, s) ==
    Cardinality({i \in 1..Len(s) : match_end(pattern, 1, s, i, FALSE) # 0})

\* the score of one candidate type as C6 states it, in halves of a point
C6_Score(config, body, filename) ==
    LET of_keyword(kw) ==
            (IF contains(kw.keyword, body) THEN 2 * kw.weight ELSE 0)
          + (IF contains(kw.keyword, filename) THEN 3 * kw.weight ELSE 0)
    IN  sum_seq([i \in 1..Len(config.keywords) |-> of_keyword(config.keywords[i])])
      + sum_seq([i \in 1..Len(config.section_patterns) |->
                    4 * C6_Occurrences(config.section_patterns[i], body)])

\* the scores of the candidate types, in definition order, for each text and
\* file name, evaluated once
C6_Scores ==
    [text \in Texts |->
        [filename \in {Filenames[f] : f \in 1..Len(Filenames)} |->
            [t \in 1..Len(doc_types) |-> C6_Score(doc_types[t], lower(text), lower(filename))]]]

\* C6: identify_document_type scores a candidate type with + weight for each
\* of its keywords in the lower-cased body (once per keyword), + 1.5 x weight
\* for each of its keywords in the lower-cased filename and + 2 for every
\* occurrence of each of its structural patterns in the body; it returns a
\* type of the best score with the confidence min(0.95, bestScore / 20), and
\* ("Unknown Document Type", 0.1) when no candidate scores above 0.
C6_TypeScoring ==
    probe.identified # <<>> =>
        LET scores == C6_Scores[probe.text][probe.filename]
            best == SetMax({scores[t] : t \in 1..Len(doc_types)})
            got == probe.identified[1]
        IN  IF best > 0
                THEN /\ \E t \in 1..Len(doc_types) :
                            doc_types[t].name = got.doc_type /\ scores[t] = best
                     /\ got.confidence = (IF 25 * best < 950 THEN 25 * best ELSE 950)
                ELSE /\ got.doc_type = UnknownDocumentType
                     /\ got.confidence = 100

\* C6 witness: "salary" twice in the body and once in the filename gives
\* Employment Contract 4 + 6 + 2 x 2 = 14 points, confidence 0.7
C6_Witness ==
    /\ probe.identified = <<[doc_type |-> EmploymentContract, confidence |-> 700]>>
    /\ Cardinality({i \in 1..Len(probe.text) :
                        occurs_at(<<"s","a","l","a","r","y">>, probe.text, i)}) = 2
    /\ contains(<<"s","a","l","a","r","y">>, probe.filename)

(***************************************************************************)
(* Properties of analyze_documents (Spec).                                 *)
(***************************************************************************)
\* C4: in every AnalysisResult analyze_documents returns, missing_documents
\* is a sub-list of the knowledge base's required_docs for result.process,
\* in the same relative order and without duplicates, and
\* required_documents is the length of that list of the knowledge base.
C4_MissingFromRequired ==
    \A c \in Requests :
        calls[c].result # <<>> =>
            LET result == calls[c].result[1]
                required == kb.official_adgm_documents[result.process].required_docs
                missing == result.missing_documents
            IN  /\ \A i \in 1..Len(missing) : \E j \in 1..Len(required) : required[j] = missing[i]
                /\ \A i1, i2 \in 1..Len(missing) :
                        i1 < i2 => /\ missing[i1] # missing[i2]
                                   /\ \E j1, j2 \in 1..Len(required) :
                                        /\ j1 < j2
                                        /\ required[j1] = missing[i1]
                                        /\ required[j2] = missing[i2]
                /\ result.required_documents = Len(required)

\* C4 witness: a result for which some of the required documents are found
\* and two or more are missing
C4_Witness ==
    \E c \in Requests :
        /\ calls[c].result # <<>>
        /\ Len(calls[c].result[1].missing_documents) >= 2
        /\ Len(calls[c].result[1].missing_documents) < calls[c].result[1].required_documents

\* extract_text_from_docx returns an error string for this file
C7_ExtractionFails(h) == ~DOCX_AVAILABLE \/ ~Uploads[h].readable

\* the files of a list that are not None and whose text is extracted
C7_Extracted(files) ==
    SelectSeq(files, LAMBDA h : h # NoFile /\ ~C7_ExtractionFails(h))

\* C7: analyze_documents returns None with a non-empty reason when no
\* document was successfully processed (empty list, only None entries, every
\* extraction failed); it never returns an AnalysisResult with
\* documents_uploaded = 0, and when a document is processed it returns an
\* AnalysisResult whose documents_uploaded is the number of documents
\* successfully processed.
C7_NoneWithoutDocuments ==
    \A c \in Requests :
        calls[c].pc = "done" =>
            LET n == Len(C7_Extracted(calls[c].files))
            IN  IF n = 0
                    THEN calls[c].result = <<>> /\ calls[c].status_msg.text # ""
                    ELSE /\ calls[c].result # <<>>
                         /\ calls[c].result[1].documents_uploaded = n

\* C8: in analyze_documents a file whose extraction fails is skipped: it adds
\* no type, no issues and is not counted, while the other files of the
\* batch, before and after it, are classified and scanned.
C8_FailedFilesSkipped ==
    \A c \in Requests :
        calls[c].pc = "loop" =>
            LET seen == C7_Extracted(SubSeq(calls[c].files, 1, calls[c].i - 1))
            IN  /\ calls[c].processed_files = [j \in 1..Len(seen) |-> Uploads[seen[j]].name]
                /\ calls[c].doc_types =
                        [j \in 1..Len(seen) |-> ProcessedUploads[TRUE][seen[j]].doc_type]
                /\ calls[c].all_issues =
                        flatten([j \in 1..Len(seen) |-> ProcessedUploads[TRUE][seen[j]].issues])

\* AnalysisResult without its timestamp
C9_Untimed(result) == [result EXCEPT !.timestamp = ""]

\* C9: two calls of analyze_documents on the same batch, with the knowledge
\* base unchanged, return AnalysisResults equal in every field but timestamp.
C9_Deterministic ==
    \A c1, c2 \in Requests :
        (calls[c1].pc = "done" /\ calls[c2].pc = "done" /\ calls[c1].files = calls[c2].files) =>
            /\ (calls[c1].result = <<>>) <=> (calls[c2].result = <<>>)
            /\ calls[c1].result # <<>> =>
                    C9_Untimed(calls[c1].result[1]) = C9_Untimed(calls[c2].result[1])

\* C9 witness: two calls on the same two documents have returned results
\* with different timestamps
C9_Witness ==
    \E c1, c2 \in Requests :
        /\ c1 # c2
        /\ calls[c1].result # <<>>
        /\ calls[c2].result # <<>>
        /\ calls[c1].files = calls[c2].files
        /\ calls[c1].result[1].documents_uploaded = 2
        /\ calls[c1].result[1].timestamp # calls[c2].result[1].timestamp

\* what a call on this file list returns on a new agent with no other call
RECURSIVE C10_Gathered(_, _, _)
C10_Gathered(d, files, gathered) ==
    IF files = <<>> THEN gathered
    ELSE IF Head(files) = NoFile \/ ProcessedUploads[d][Head(files)].skipped
        THEN C10_Gathered(d, Tail(files), gathered)
    ELSE C10_Gathered(d, Tail(files),
            [doc_types |-> Append(gathered.doc_types, ProcessedUploads[d][Head(files)].doc_type),
             names |-> Append(gathered.names, Uploads[Head(files)].name),
             issues |-> gathered.issues \o ProcessedUploads[d][Head(files)].issues])

C10_Alone ==
    [d \in BOOLEAN |-> [files \in FileLists |->
        LET gathered == C10_Gathered(d, files, [doc_types |-> <<>>, names |-> <<>>,
                                                issues |-> <<>>])
        IN  IF gathered.names = <<>> THEN <<>>
            ELSE <<C9_Untimed(analysis_result(KnowledgeBase, gathered.doc_types,
                                              gathered.names, gathered.issues, ""))>>]]

\* C10: after any sequence or interleaving of analyze_documents calls the
\* tables of the knowledge base and the fields of the agent are as
\* constructed, and what a call returns depends on its file list alone, not
\* on earlier or concurrent calls.
C10_NoSharedState ==
    /\ kb = KnowledgeBase
    /\ agent = AgentInit
    /\ \A c \in Requests :
            calls[c].pc = "done" =>
                LET alone == C10_Alone[DOCX_AVAILABLE][calls[c].files]
                IN  IF alone = <<>> THEN calls[c].result = <<>>
                    ELSE /\ calls[c].result # <<>>
                         /\ C9_Untimed(calls[c].result[1]) = alone[1]

\* C10 witness: a call has returned its result while another call, on other
\* files, is inside its loop and has found issues
C10_Witness ==
    \E c1, c2 \in Requests :
        /\ calls[c1].pc = "done"
        /\ calls[c1].result # <<>>
        /\ Len(calls[c1].result[1].issues_found) > 0
        /\ calls[c2].pc = "loop"
        /\ calls[c2].i > 1
        /\ Len(calls[c2].all_issues) > 0
        /\ calls[c2].files # calls[c1].files

(***************************************************************************)
(* Severity and the score (SpecRaise).                                     *)
(***************************************************************************)
\* C11: with the severity of one issue raised from Low to Critical, the
\* confidence and everything else the same, the compliance score is never
\* higher than with the list as it was.
C11_SeverityMonotone ==
    (probe.score # <<>> /\ probe.raised_score # <<>>) =>
        probe.raised_score[1] <= probe.score[1]

\* C11 witness: the two lists differ in one issue, Low in one and Critical in
\* the other with the same confidence above 0, and the score of the list
\* with the Critical issue is strictly lower and not 0
C11_Witness ==
    /\ probe.score # <<>>
    /\ probe.raised_score # <<>>
    /\ probe.raised_score[1] > 0
    /\ probe.raised_score[1] < probe.score[1]
    /\ \E i \in 1..Len(probe.issues) :
            /\ probe.issues[i].severity = "Low"
            /\ probe.raised[i].severity = "Critical"
            /\ probe.raised[i].confidence = probe.issues[i].confidence
            /\ probe.issues[i].confidence > 0
            /\ \A j \in 1..Len(probe.issues) : j # i => probe.raised[j] = probe.issues[j]

(***************************************************************************)
(* Scenarios of detect_red_flags (SpecText).                               *)
(***************************************************************************)
\* "UAE Federal Court"
C12_Phrase == <<"U","A","E"," ","F","e","d","e","r","a","l"," ","C","o","u","r","t">>

\* the text contains "UAE Federal Court" and "ADGM" nowhere
C12_Case == contains(C12_Phrase, probe.text) /\ ~contains(<<"A","D","G","M">>, probe.text)

\* the Critical issues of the jurisdiction pass among the issues
C12_JurisdictionPass(issues) ==
    SelectSeq(issues, LAMBDA x : x.section.fmt = "Jurisdiction Clause" /\ x.severity = "Critical")

\* the Critical issues of the pattern pass for a match of "UAE Federal Court"
C12_PatternPass(issues) ==
    SelectSeq(issues, LAMBDA x : /\ x.line_number >= 1
                                 /\ x.severity = "Critical"
                                 /\ x.suggestion.arg = C12_Phrase)

\* C12 as stated: for a text with "UAE Federal Court" and without "ADGM" the
\* jurisdiction pass of detect_red_flags emits exactly one Critical issue,
\* its reference the article on jurisdiction, and the risk tier of the
\* issues is HIGH RISK.
C12_OneFromJurisdictionPass ==
    (C12_Case /\ probe.issues # <<>>) =>
        /\ Len(C12_JurisdictionPass(probe.issues[1])) = 1
        /\ \A i \in 1..Len(C12_JurisdictionPass(probe.issues[1])) :
                C12_JurisdictionPass(probe.issues[1])[i].adgm_reference
                    = "Article 6 - Jurisdiction and Governing Law"
        /\ probe.risk # <<>> => probe.risk[1].tier = "HIGH RISK"

\* C12 amended: for a text with "UAE Federal Court" and without "ADGM" in any
\* letter case, the pattern pass emits one Critical issue of the category
\* jurisdiction for every occurrence of the phrase, with the reference
\* "ADGM Companies Regulations 2020, Article 6"; the jurisdiction pass emits
\* one Critical issue, its reference the article on jurisdiction, for every
\* phrase of prohibited_references the text contains, which the singular
\* "UAE Federal Court" is not; the risk tier of the issues is HIGH RISK.
C12_FederalCourtFlagged ==
    (C12_Case /\ ~contains(adgm_lower, lower(probe.text)) /\ probe.issues # <<>>) =>
        LET from_jurisdiction == C12_JurisdictionPass(probe.issues[1])
            from_pattern == C12_PatternPass(probe.issues[1])
            prohibited == kb.compliance_requirements.prohibited_references
        IN  /\ Len(from_pattern)
                    = Cardinality({i \in 1..Len(probe.text) : occurs_at(C12_Phrase, probe.text, i)})
            /\ Len(from_pattern) >= 1
            /\ \A i \in 1..Len(from_pattern) :
                    /\ from_pattern[i].category = "jurisdiction"
                    /\ from_pattern[i].adgm_reference = "ADGM Companies Regulations 2020, Article 6"
            /\ Len(from_jurisdiction)
                    = Cardinality({r \in 1..Len(prohibited) :
                                        contains(lower(prohibited[r]), lower(probe.text))})
            /\ \A i \in 1..Len(from_jurisdiction) :
                    from_jurisdiction[i].adgm_reference
                        = "Article 6 - Jurisdiction and Governing Law"
            /\ probe.risk # <<>> => probe.risk[1].tier = "HIGH RISK"

\* C12 witness: "UAE Federal Court" and nothing else: one issue, of the
\* pattern pass, none of the jurisdiction pass, HIGH RISK with no document
\* missing
C12_Witness ==
    /\ C12_Case
    /\ probe.issues # <<>>
    /\ probe.risk # <<>>
    /\ probe.risk[1].tier = "HIGH RISK"
    /\ probe.risk[1].missing_docs = <<>>
    /\ Len(probe.issues[1]) = 1
    /\ Len(C12_PatternPass(probe.issues[1])) = 1
    /\ C12_JurisdictionPass(probe.issues[1]) = <<>>

\* C13 as stated: for the text "...insert name..." detect_red_flags produces
\* exactly one Medium issue, of the category completeness, and its suggestion
\* contains the matched placeholder text.
C13_OnePlaceholderIssue ==
    (probe.text = PlaceholderText /\ probe.issues # <<>>) =>
        LET medium == SelectSeq(probe.issues[1], LAMBDA x : x.severity = "Medium")
        IN  /\ Len(medium) = 1
            /\ \A i \in 1..Len(medium) :
                    /\ medium[i].category = "completeness"
                    /\ medium[i].suggestion.arg # <<>>
                    /\ contains(medium[i].suggestion.arg, probe.text)

\* C13 amended: for the text "...insert name..." detect_red_flags produces
\* exactly three issues, each Medium and of the category completeness: one
\* for the placeholder "insert name", then one for each of the two runs of
\* dots; the suggestion of each, "Complete the placeholder '...' with
\* specific legal content", contains the text its pattern matched.
C13_ThreePlaceholderIssues ==
    (probe.text = PlaceholderText /\ probe.issues # <<>>) =>
        LET issues == probe.issues[1]
            matched == << <<"i","n","s","e","r","t"," ","n","a","m","e">>,
                          <<".",".",".">>,
                          <<".",".",".">> >>
        IN  /\ Len(issues) = 3
            /\ \A i \in 1..Len(issues) :
                    /\ issues[i].severity = "Medium"
                    /\ issues[i].category = "completeness"
                    /\ issues[i].suggestion.fmt
                            = "Complete the placeholder '{}' with specific legal content"
                    /\ i <= 3 => issues[i].suggestion.arg = matched[i]

\* C13 witness: detect_red_flags has returned the issues of "...insert name..."
C13_Witness ==
    /\ probe.text = PlaceholderText
    /\ probe.issues # <<>>
    /\ Len(probe.issues[1]) > 0
    /\ probe.issues[1][1].suggestion.arg = <<"i","n","s","e","r","t"," ","n","a","m","e">>

(***************************************************************************)
(* Properties of _find_missing_documents (SpecMissing).                    *)
(***************************************************************************)
\* the identifier groups {articles, aoa}, {memorandum, moa},
\* {resolution, board}, {ubo, beneficial, ownership} and
\* {register, members, directors}
C14_Groups == {
    { <<"a","r","t","i","c","l","e","s">>, <<"a","o","a">> },
    { <<"m","e","m","o","r","a","n","d","u","m">>, <<"m","o","a">> },
    { <<"r","e","s","o","l","u","t","i","o","n">>, <<"b","o","a","r","d">> },
    { <<"u","b","o">>, <<"b","e","n","e","f","i","c","i","a","l">>,
      <<"o","w","n","e","r","s","h","i","p">> },
    { <<"r","e","g","i","s","t","e","r">>, <<"m","e","m","b","e","r","s">>,
      <<"d","i","r","e","c","t","o","r","s">> } }

\* the two labels, lower-cased, each contain an identifier of one common group
C14_SharedGroup(required, uploaded) ==
    \E group \in C14_Groups :
        /\ \E identifier \in group : contains(identifier, lower(required))
        /\ \E identifier \in group : contains(identifier, lower(uploaded))

\* every required label shares an identifier group with some uploaded label
C14_AllRepresented ==
    \A r \in 1..Len(probe.required_docs) :
        \E u \in 1..Len(probe.uploaded_types) :
            C14_SharedGroup(probe.required_docs[r], probe.uploaded_types[u])

\* C14: _find_missing_documents returns the empty list whenever every
\* required label shares an identifier group with some uploaded label: each
\* of the two contains an identifier of that group.
C14_NothingMissing ==
    (probe.missing # <<>> /\ C14_AllRepresented) => probe.missing[1] = <<>>

\* at least 60% of the words of the required label that are longer than 2
\* characters are substrings of the uploaded label, both lower-cased
C15_MostWords(required, uploaded) ==
    LET words == SelectSeq(split(lower(required)), LAMBDA word : Len(word) > 2)
        present == {i \in 1..Len(words) : contains(words[i], lower(uploaded))}
    IN  100 * Cardinality(present) >= 60 * Len(words)

\* C14 witness: two labels are required, each shares a group with an
\* uploaded label, one of them has fewer than 60% of its words in every
\* uploaded label, and nothing is reported missing
C14_Witness ==
    /\ probe.missing = << <<>> >>
    /\ Len(probe.required_docs) = 2
    /\ C14_AllRepresented
    /\ \E r \in 1..Len(probe.required_docs) :
            \A u \in 1..Len(probe.uploaded_types) :
                ~C15_MostWords(probe.required_docs[r], probe.uploaded_types[u])

\* C15: _find_missing_documents reports a required label missing if and only
\* if no single uploaded label (a) has at least 60% of the required label's
\* words longer than 2 characters as substrings or (b) shares an identifier
\* group with the required label; with "Memorandum of Association" uploaded,
\* the required "UBO Declaration Form" is reported missing.
C15_MissingIffUnmatched ==
    probe.missing # <<>> =>
        /\ \A r \in 1..Len(probe.required_docs) :
                (\E m \in 1..Len(probe.missing[1]) : probe.missing[1][m] = probe.required_docs[r])
                <=> ~\E u \in 1..Len(probe.uploaded_types) :
                        \/ C15_MostWords(probe.required_docs[r], probe.uploaded_types[u])
                        \/ C14_SharedGroup(probe.required_docs[r], probe.uploaded_types[u])
        /\ \A m \in 1..Len(probe.missing[1]) :
                \E r \in 1..Len(probe.required_docs) : probe.required_docs[r] = probe.missing[1][m]
        /\ (/\ probe.uploaded_types = << <<"M","e","m","o","r","a","n","d","u","m"," ","o","f"," ","A","s","s","o","c","i","a","t","i","o","n">> >>
            /\ \E r \in 1..Len(probe.required_docs) :
                    probe.required_docs[r] = <<"U","B","O"," ","D","e","c","l","a","r","a","t","i","o","n"," ","F","o","r","m">>)
            => \E m \in 1..Len(probe.missing[1]) :
                    probe.missing[1][m] = <<"U","B","O"," ","D","e","c","l","a","r","a","t","i","o","n"," ","F","o","r","m">>

\* C15 witness: of three required labels the first is found by rule (a)
\* alone, with exactly 3 of its 5 words in the uploaded label, and the two
\* others are reported missing
C15_Witness ==
    /\ probe.missing # <<>>
    /\ Len(probe.required_docs) = 3
    /\ Len(probe.uploaded_types) = 1
    /\ Len(probe.missing[1]) = 2
    /\ C15_MostWords(probe.required_docs[1], probe.uploaded_types[1])
    /\ ~C14_SharedGroup(probe.required_docs[1], probe.uploaded_types[1])
    /\ LET words == SelectSeq(split(lower(probe.required_docs[1])), LAMBDA word : Len(word) > 2)
       IN  /\ Len(words) = 5
           /\ Cardinality({i \in 1..Len(words) :
                               contains(words[i], lower(probe.uploaded_types[1]))}) = 3

(***************************************************************************)
(* The order of what the processor returns (SpecText).                     *)
(***************************************************************************)
\* the scores of the candidate types, in definition order: Articles of
\* Association, Memorandum of Association, Board Resolution, Employment
\* Contract, UBO Declaration
C16_Scores == C6_Scores[probe.text][probe.filename]

\* C16: identify_document_type returns the candidate of the highest score,
\* and of several candidates with the same highest positive score the one
\* registered first in definition order.
C16_FirstOfBest ==
    (probe.identified # <<>> /\ \E t \in 1..Len(doc_types) : C16_Scores[t] > 0) =>
        LET best == SetMax({C16_Scores[t] : t \in 1..Len(doc_types)})
            first == SetMin({t \in 1..Len(doc_types) : C16_Scores[t] = best})
        IN  /\ probe.identified[1].doc_type = doc_types[first].name
            /\ <<doc_types[1].name, doc_types[2].name, doc_types[3].name,
                 doc_types[4].name, doc_types[5].name>>
                = << <<"A","r","t","i","c","l","e","s"," ","o","f"," ","A","s","s","o","c","i","a","t","i","o","n">>,
                     <<"M","e","m","o","r","a","n","d","u","m"," ","o","f"," ","A","s","s","o","c","i","a","t","i","o","n">>,
                     <<"B","o","a","r","d"," ","R","e","s","o","l","u","t","i","o","n">>,
                     <<"E","m","p","l","o","y","m","e","n","t"," ","C","o","n","t","r","a","c","t">>,
                     <<"U","B","O"," ","D","e","c","l","a","r","a","t","i","o","n">> >>

\* C16 witness: Articles of Association and Board Resolution have the same
\* highest score, the text naming the Board Resolution's pattern first, and
\* Articles of Association is returned
C16_Witness ==
    /\ probe.identified # <<>>
    /\ probe.identified[1].doc_type = ArticlesOfAssociation
    /\ C16_Scores[1] > 0
    /\ C16_Scores[3] = C16_Scores[1]
    /\ \A t \in 1..Len(doc_types) : C16_Scores[t] <= C16_Scores[1]
    /\ occurs_at(<<"q","u","o","r","u","m">>, probe.text, 1)

\* the place in red_flag_patterns of the rule category of an issue of the
\* pattern pass
C17_Category(issue) ==
    CHOOSE c \in 1..Len(kb.red_flag_patterns) :
        kb.red_flag_patterns[c].category = issue.category

\* the place, in its category's list, of the first pattern that matches the
\* text the issue's suggestion names, 0 when the suggestion names none
C17_Pattern(issue) ==
    LET patterns == kb.red_flag_patterns[C17_Category(issue)].patterns
        matched == issue.suggestion.arg
        whole == {p \in 1..Len(patterns) :
                    match_end(patterns[p], 1, matched, 1, TRUE) = Len(matched) + 1}
    IN  IF matched = <<>> \/ whole = {} THEN 0 ELSE SetMin(whole)

\* the offset in the text of the match of issue j: of the issues that name
\* the same matched text, the n-th is the match at its n-th occurrence
C17_Offset(issues, j) ==
    LET matched == issues[j].suggestion.arg
        n == Cardinality({i \in 1..j : /\ issues[i].line_number >= 1
                                        /\ issues[i].category = issues[j].category
                                        /\ issues[i].suggestion.arg = matched})
        places == {p \in 1..Len(probe.text) : occurs_at(matched, probe.text, p)}
        upto(p) == Cardinality({q \in places : q <= p})
    IN  IF \E p \in places : upto(p) = n
            THEN (CHOOSE p \in places : upto(p) = n) - 1
            ELSE Len(probe.text)

\* the issues of the jurisdiction pass come first and the issues of the
\* pattern pass follow in the order of their categories in red_flag_patterns
C17_PassesAndCategories(issues) ==
    \A i, j \in 1..Len(issues) :
        i < j =>
            /\ issues[j].line_number = 0 => issues[i].line_number = 0
            /\ (issues[i].line_number >= 1 /\ issues[j].line_number >= 1)
                    => C17_Category(issues[i]) <= C17_Category(issues[j])

\* two issues of the pattern pass, of one category, that name their matches
C17_Comparable(issues, i, j) ==
    /\ i < j
    /\ issues[i].line_number >= 1
    /\ issues[j].line_number >= 1
    /\ issues[i].category = issues[j].category
    /\ C17_Pattern(issues[i]) # 0
    /\ C17_Pattern(issues[j]) # 0

\* C17 as stated: the list detect_red_flags returns has the issues of the
\* jurisdiction pass first, then those of the pattern pass by rule category
\* in the order of the knowledge base, and within one rule category in
\* increasing order of the offsets of their matches.
C17_OffsetOrderInCategory ==
    probe.issues # <<>> =>
        /\ C17_PassesAndCategories(probe.issues[1])
        /\ \A i, j \in 1..Len(probe.issues[1]) :
                C17_Comparable(probe.issues[1], i, j)
                    => C17_Offset(probe.issues[1], i) < C17_Offset(probe.issues[1], j)

\* C17 amended: the issues of the jurisdiction pass first, then those of the
\* pattern pass by rule category in the order of the knowledge base; within
\* one rule category by pattern, in the order of the category's pattern
\* list, and within one pattern in increasing order of the offsets of the
\* matches, each issue at the line of its match.
C17_PatternThenOffsetOrder ==
    probe.issues # <<>> =>
        /\ C17_PassesAndCategories(probe.issues[1])
        /\ \A i, j \in 1..Len(probe.issues[1]) :
                C17_Comparable(probe.issues[1], i, j) =>
                    \/ C17_Pattern(probe.issues[1][i]) < C17_Pattern(probe.issues[1][j])
                    \/ /\ C17_Pattern(probe.issues[1][i]) = C17_Pattern(probe.issues[1][j])
                       /\ C17_Offset(probe.issues[1], i) < C17_Offset(probe.issues[1], j)
        /\ \A j \in 1..Len(probe.issues[1]) :
                (probe.issues[1][j].line_number >= 1 /\ C17_Pattern(probe.issues[1][j]) # 0) =>
                    probe.issues[1][j].line_number
                        = count_char(SubSeq(probe.text, 1, C17_Offset(probe.issues[1], j)), "\n") + 1

\* C17 witness: an issue of the jurisdiction pass, then two issues of one
\* category of the pattern pass of which the first, of an earlier pattern,
\* matched later in the text than the second
C17_Witness ==
    /\ probe.issues # <<>>
    /\ Len(probe.issues[1]) >= 3
    /\ probe.issues[1][1].line_number = 0
    /\ \E i, j \in 1..Len(probe.issues[1]) :
            /\ C17_Comparable(probe.issues[1], i, j)
            /\ C17_Pattern(probe.issues[1][i]) < C17_Pattern(probe.issues[1][j])
            /\ C17_Offset(probe.issues[1], i) > C17_Offset(probe.issues[1], j)

(***************************************************************************)
(* Properties of check_jurisdiction_compliance (SpecJurisdiction).         *)
(***************************************************************************)
\* "ADGM", "Abu Dhabi Global Market", "ADGM Courts", "ADGM Regulations" and
\* "ADGM Registration Authority", lower-cased
C18_RequiredPhrases == {
    <<"a","d","g","m">>,
    <<"a","b","u"," ","d","h","a","b","i"," ","g","l","o","b","a","l"," ","m","a","r","k","e","t">>,
    <<"a","d","g","m"," ","c","o","u","r","t","s">>,
    <<"a","d","g","m"," ","r","e","g","u","l","a","t","i","o","n","s">>,
    <<"a","d","g","m"," ","r","e","g","i","s","t","r","a","t","i","o","n"," ","a","u","t","h","o","r","i","t","y">> }

\* the text contains one of the required phrases, in any letter case
C18_MentionsRequired ==
    \E phrase \in C18_RequiredPhrases : contains(phrase, lower(probe.text))

\* the findings of the given type among what check_jurisdiction_compliance returned
C18_Findings(type) == SelectSeq(probe.findings[1], LAMBDA f : f.type = type)

\* C18: check_jurisdiction_compliance emits a prohibited-jurisdiction
\* finding, Critical with confidence 0.95, for a prohibited phrase only when
\* the phrase occurs in the text in any letter case and the text contains
\* none of the required phrases; a text that contains a required phrase
\* gets no prohibited-jurisdiction finding.
C18_ProhibitedOnlyWithoutRequired ==
    probe.findings # <<>> =>
        LET prohibited == C18_Findings("prohibited_jurisdiction")
        IN  /\ \A i \in 1..Len(prohibited) :
                    /\ prohibited[i].severity = "Critical"
                    /\ prohibited[i].confidence = 950
                    /\ contains(lower(prohibited[i].message.arg), lower(probe.text))
                    /\ ~C18_MentionsRequired
            /\ C18_MentionsRequired => prohibited = <<>>

\* C19: check_jurisdiction_compliance emits the missing-ADGM-reference
\* finding, High with confidence 0.85, if and only if the text contains none
\* of the required phrases, in any letter case, and is longer than 500
\* characters; a text of 500 characters or fewer never gets it, and a text
\* gets it at most once.
C19_MissingReferenceIffLong ==
    probe.findings # <<>> =>
        LET missing == C18_Findings("missing_adgm_reference")
        IN  /\ Len(missing) <= 1
            /\ Len(missing) = 1 <=> (~C18_MentionsRequired /\ Len(probe.text) > 500)
            /\ Len(probe.text) <= 500 => missing = <<>>
            /\ \A i \in 1..Len(missing) :
                    /\ missing[i].severity = "High"
                    /\ missing[i].confidence = 850

\* C19 witness: a text of 501 characters with a prohibited phrase and no
\* required phrase has the finding, after the finding of the prohibited phrase
C19_Witness ==
    /\ probe.findings # <<>>
    /\ Len(probe.text) = 501
    /\ Len(probe.findings[1]) = 2
    /\ probe.findings[1][1].type = "prohibited_jurisdiction"
    /\ probe.findings[1][2].type = "missing_adgm_reference"

(***************************************************************************)
(* The confidence of the issues of the pattern pass (SpecText).            *)
(***************************************************************************)
\* the terms that affirm ADGM: "adgm", "abu dhabi" and "courts"
C20_Terms == { <<"a","d","g","m">>,
               <<"a","b","u"," ","d","h","a","b","i">>,
               <<"c","o","u","r","t","s">> }

\* the text from 100 characters before the match of issue j to 100
\* characters after it
C20_Context(issues, j) ==
    LET offset == C17_Offset(issues, j)
        length == Len(issues[j].suggestion.arg)
        first == IF offset > 100 THEN offset - 100 + 1 ELSE 1
        last == IF offset + length + 100 < Len(probe.text)
                    THEN offset + length + 100 ELSE Len(probe.text)
    IN  SubSeq(probe.text, first, last)

\* min(0.98, 0.8 + 0.1 for a match longer than 10 characters + 0.05 for a
\* context with a term that affirms ADGM), in thousandths
C20_Confidence(issues, j) ==
    LET sum == 800
                + (IF Len(issues[j].suggestion.arg) > 10 THEN 100 ELSE 0)
                + (IF \E term \in C20_Terms : contains(term, lower(C20_Context(issues, j)))
                        THEN 50 ELSE 0)
    IN  IF sum < 980 THEN sum ELSE 980

C21_Matches(k, text) ==
    flatten([c \in 1..Len(k.red_flag_patterns) |->
        flatten([p \in 1..Len(k.red_flag_patterns[c].patterns) |->
            finditer(k.red_flag_patterns[c].patterns[p], text, TRUE)])])

\* the issues of the pattern pass: those with a line number
C21_PatternPass(issues) == SelectSeq(issues, LAMBDA issue : issue.line_number # 0)

\* the positions where a line of the text begins
C21_LineStarts(text) == {i \in 1..Len(text) : i = 1 \/ text[i - 1] = "\n"}

\* the positions where a line marker "[LINE n]" begins
C21_Markers(text) ==
    {i \in C21_LineStarts(text) : occurs_at(<<"[","L","I","N","E"," ">>, text, i)}

\* the pattern-pass issues of the reviewed text are as many as the matches,
\* and each issue and its match satisfy Holds(text, issue, match)
C21_EachIssue(Holds(_, _, _)) ==
    (probe.fn = "lines" /\ probe.reviewed # <<>>) =>
        LET check(text, issues, matches) ==
                /\ Len(issues) = Len(matches)
                /\ \A j \in 1..Len(issues) : Holds(text, issues[j], matches[j])
        IN  check(probe.extracted[1].text, C21_PatternPass(probe.reviewed[1].issues),
                  C21_Matches(kb, probe.extracted[1].text))

\* C21 as stated: the line number of every pattern-pass issue is at least 1
\* and is the number of line markers that begin at or before the match
C21_LineNumberCountsMarkers ==
    C21_EachIssue(LAMBDA text, issue, m :
        /\ issue.line_number >= 1
        /\ issue.line_number = Cardinality({i \in C21_Markers(text) : i <= m.start}))

\* C21 amended: the line number of every pattern-pass issue is at least 1 and
\* is the number of lines of the annotated text that begin at or before the
\* match, one more than the newlines before it; it is the number of line
\* markers that begin at or before the match when each of these lines begins
\* with a marker
C21_LineNumberCountsLines ==
    C21_EachIssue(LAMBDA text, issue, m :
        /\ issue.line_number >= 1
        /\ issue.line_number = 1 + Cardinality({i \in 1..(m.start - 1) : text[i] = "\n"})
        /\ issue.line_number = Cardinality({i \in C21_LineStarts(text) : i <= m.start})
        /\ ({i \in C21_LineStarts(text) : i <= m.start} \subseteq C21_Markers(text)
                => issue.line_number = Cardinality({i \in C21_Markers(text) : i <= m.start})))

\* C21 witness: an issue on the second line of a text in which every line
\* begins with a marker
C21_Witness ==
    /\ probe.fn = "lines"
    /\ probe.reviewed # <<>>
    /\ C21_LineStarts(probe.extracted[1].text) = C21_Markers(probe.extracted[1].text)
    /\ \E j \in 1..Len(probe.reviewed[1].issues) : probe.reviewed[1].issues[j].line_number = 2

\* the line marker the extractor writes before paragraph i
C27_Marker(i) == <<"[","L","I","N","E"," ">> \o decimal(i) \o <<"]">>

\* the Medium issues of category completeness whose matched text is "matched"
C27_PlaceholderIssues(issues, matched) ==
    SelectSeq(issues, LAMBDA issue : /\ issue.severity = "Medium"
                                     /\ issue.category = "completeness"
                                     /\ issue.suggestion.arg = matched)

\* C27: in the review of a readable document, the line marker of every
\* non-blank paragraph is reported by a Medium completeness issue of its own,
\* and the issue list of a document with a non-blank paragraph is not empty
C27_MarkersFlagged ==
    (probe.fn = "lines" /\ probe.reviewed # <<>>) =>
        LET check(paragraphs, issues) ==
                LET marked == {i \in 1..Len(paragraphs) : strip(paragraphs[i]) # <<>>}
                IN  /\ \A i \in marked : Len(C27_PlaceholderIssues(issues, C27_Marker(i))) >= 1
                    /\ Len(SelectSeq(issues, LAMBDA issue :
                            issue.severity = "Medium" /\ issue.category = "completeness"))
                                >= Cardinality(marked)
                    /\ marked # {} => issues # <<>>
        IN  check(probe.file.paragraphs, probe.reviewed[1].issues)

\* C27 witness: the document with the one paragraph "ok" and no table, whose
\* only issue is the one of its line marker
C27_Witness ==
    /\ probe.fn = "lines"
    /\ probe.reviewed # <<>>
    /\ probe.file.paragraphs = << <<"o","k">> >>
    /\ probe.file.tables = <<>>
    /\ Len(probe.reviewed[1].issues) = 1
    /\ Len(C27_PlaceholderIssues(probe.reviewed[1].issues, C27_Marker(1))) = 1

(***************************************************************************)
(* Properties of the process and of the AnalysisResult (SpecResult).       *)
(***************************************************************************)
\* the buckets in the order of the claim, with their keywords
C22_Buckets == <<
    [process |-> "company_incorporation",
     keywords |-> {<<"a","r","t","i","c","l","e","s">>, <<"m","e","m","o","r","a","n","d","u","m">>,
                   <<"b","o","a","r","d">>, <<"u","b","o">>, <<"r","e","g","i","s","t","e","r">>}],
    [process |-> "employment_requirements",
     keywords |-> {<<"e","m","p","l","o","y","m","e","n","t">>, <<"c","o","n","t","r","a","c","t">>,
                   <<"s","e","r","v","i","c","e">>}],
    [process |-> "licensing_requirements",
     keywords |-> {<<"l","i","c","e","n","s","e">>, <<"p","e","r","m","i","t">>,
                   <<"a","p","p","l","i","c","a","t","i","o","n">>}],
    [process |-> "compliance_filings",
     keywords |-> {<<"c","o","m","p","l","i","a","n","c","e">>, <<"f","i","l","i","n","g">>,
                   <<"a","n","n","u","a","l">>}] >>

\* whether the label, lower-cased, contains a keyword of bucket b, for the
\* labels of SpecResult and each bucket
C22_Contains ==
    [label \in KnownLabels \cup ProcessLabels |->
        [b \in 1..4 |-> \E keyword \in C22_Buckets[b].keywords : contains(keyword, lower(label))]]

C22_Hits(label, b) == C22_Contains[label][b]

\* the total of bucket b: 10 for every label that hits b and no bucket before b
C22_Total(labels, b) ==
    10 * Cardinality({i \in 1..Len(labels) :
                        /\ C22_Hits(labels[i], b)
                        /\ \A a \in 1..(b - 1) : ~C22_Hits(labels[i], a)})

\* C22: _determine_process_type adds 10 for every label to the first bucket,
\* in the order incorporation, employment, licensing, filings, one of whose
\* keywords the label contains, and to no other (a label that contains no
\* keyword adds nothing); it returns the bucket with the highest total, the
\* one declared first among equal totals, and company_incorporation when
\* every total is 0, so never an unlisted process.
C22_FirstBucketWins ==
    (probe.fn = "result" /\ probe.process # <<>>) =>
        LET check(totals, process) ==
                LET top == SetMax({totals[b] : b \in 1..4})
                IN  /\ process \in {C22_Buckets[b].process : b \in 1..4}
                    /\ top = 0 => process = "company_incorporation"
                    /\ top > 0 =>
                        \E b \in 1..4 : /\ process = C22_Buckets[b].process
                                        /\ totals[b] = top
                                        /\ \A a \in 1..(b - 1) : totals[a] < top
        IN  check([b \in 1..4 |-> C22_Total(probe.doc_types, b)], probe.process[1])

\* C22 witness: "Service License" and "License Application Form": the first
\* label counts for employment only, the totals are equal and the bucket
\* declared first is returned
C22_Witness ==
    /\ probe.fn = "result"
    /\ probe.process = <<"employment_requirements">>
    /\ Len(probe.doc_types) = 2
    /\ C22_Hits(probe.doc_types[1], 2) /\ C22_Hits(probe.doc_types[1], 3)
    /\ C22_Total(probe.doc_types, 2) = 10
    /\ C22_Total(probe.doc_types, 3) = 10

\* the three closing recommendations
C23_Closing == <<
    Str("Review all documents against official ADGM templates and guidelines"),
    Str("Consult qualified legal professionals for final validation"),
    Str("Re-run compliance check after addressing identified issues")>>

\* the recommendation for critical issues, and the one of each process that has one
C23_Critical ==
    Str("Address all critical jurisdiction and compliance issues immediately before submission")
C23_OfProcess ==
    [company_incorporation |->
        Str("Ensure all documents reference ADGM jurisdiction and use official templates"),
     employment_requirements |-> Str("Use ADGM Standard Employment Contract Template 2024")]

\* the positions of an entry in a list
C23_Positions(recs, entry) == {i \in 1..Len(recs) : recs[i] = entry}

\* C23: the recommendations of a result are, in this order: the critical-issue
\* recommendation iff an issue is Critical; iff a document is missing, the
\* line with the number of missing documents and then the first 3 missing
\* labels, or all of them if fewer; the recommendation of the process iff it
\* is company_incorporation or employment_requirements; and always the three
\* closing recommendations as the last three entries.
C23_RecommendationOrder ==
    (probe.fn = "result" /\ probe.result # <<>>) =>
        LET check(recs, issues, missing, process) ==
                LET c == IF \E i \in 1..Len(issues) : issues[i].severity = "Critical"
                            THEN 1 ELSE 0
                    listed == IF Len(missing) > 3 THEN 3 ELSE Len(missing)
                    m == IF Len(missing) > 0 THEN 1 + listed ELSE 0
                    s == IF process \in DOMAIN C23_OfProcess THEN 1 ELSE 0
                IN  /\ Len(recs) = c + m + s + 3
                    /\ C23_Positions(recs, C23_Critical) = (IF c = 1 THEN {1} ELSE {})
                    /\ Len(missing) > 0 =>
                        /\ recs[c + 1] = FStr("Prepare and submit {} missing required documents",
                                              Len(missing), <<>>, "")
                        /\ \A i \in 1..listed : recs[c + 1 + i] = FStr("  * {}", 0, missing[i], "")
                    /\ \A p \in DOMAIN C23_OfProcess :
                        C23_Positions(recs, C23_OfProcess[p]) =
                            (IF p = process THEN {c + m + 1} ELSE {})
                    /\ SubSeq(recs, Len(recs) - 2, Len(recs)) = C23_Closing
        IN  check(probe.result[1].recommendations, probe.result[1].issues_found,
                  probe.result[1].missing_documents, probe.result[1].process)

\* C23 witness: a Critical issue, more than 3 missing documents and the
\* process company_incorporation: nine recommendations
C23_Witness ==
    /\ probe.fn = "result"
    /\ probe.result # <<>>
    /\ probe.result[1].process = "company_incorporation"
    /\ Len(probe.result[1].missing_documents) > 3
    /\ \E i \in 1..Len(probe.result[1].issues_found) :
            probe.result[1].issues_found[i].severity = "Critical"
    /\ Len(probe.result[1].recommendations) = 9

\* the labels of the batch are labels identify_document_type returns
C24_ClassifierLabels ==
    \A i \in 1..Len(probe.doc_types) :
        probe.doc_types[i] \in {doc_types[t].name : t \in 1..Len(doc_types)}
                                    \cup {UnknownDocumentType}

\* the elements of a list
C24_Range(seq) == {seq[i] : i \in 1..Len(seq)}

\* "Register of Members and Directors"
C24_Register ==
    <<"R","e","g","i","s","t","e","r"," ","o","f"," ","M","e","m","b","e","r","s"," ","a","n","d"," ","D","i","r","e","c","t","o","r","s">>

\* C24: the AnalysisResult of a batch of labels the classifier returns has a
\* missing document: "Register of Members and Directors" under
\* company_incorporation, every required document under
\* employment_requirements; its risk level is HIGH RISK or MEDIUM RISK and its
\* compliance score is at most 90.
C24_AlwaysMissing ==
    (probe.fn = "result" /\ probe.result # <<>> /\ C24_ClassifierLabels) =>
        LET check(result) ==
                /\ result.missing_documents # <<>>
                /\ result.process = "company_incorporation" =>
                        C24_Register \in C24_Range(result.missing_documents)
                /\ result.process = "employment_requirements" =>
                        result.missing_documents =
                            official_adgm_documents["employment_requirements"].required_docs
                /\ result.risk_level \in {"HIGH RISK", "MEDIUM RISK"}
                /\ result.compliance_score <= 90 * Milli
        IN  check(probe.result[1])

\* C24 witness: one document of each of the four types of the incorporation
\* and no issue: only the register is missing, MEDIUM RISK, score 90
C24_Witness ==
    /\ probe.fn = "result"
    /\ probe.result # <<>>
    /\ C24_ClassifierLabels
    /\ probe.all_issues = <<>>
    /\ probe.result[1].missing_documents = <<C24_Register>>
    /\ probe.result[1].risk_level = "MEDIUM RISK"
    /\ probe.result[1].compliance_score = 90 * Milli

\* C25: when the process of a batch of labels the classifier returns is
\* employment_requirements, the result reports the three required employment
\* documents missing, "Employment Contract (ADGM Standard 2024)" among them
\* although "Employment Contract" is among the labels; its risk level is
\* HIGH RISK and its compliance score is at most 60.
C25_EmploymentAllMissing ==
    (/\ probe.fn = "result"
     /\ probe.result # <<>>
     /\ C24_ClassifierLabels
     /\ probe.result[1].process = "employment_requirements") =>
        LET check(result, required_docs) ==
                /\ EmploymentContract \in C24_Range(probe.doc_types)
                /\ Len(required_docs) = 3
                /\ C24_Range(result.missing_documents) = C24_Range(required_docs)
                /\ Len(result.missing_documents) = 3
                /\ result.risk_level = "HIGH RISK"
                /\ result.compliance_score <= 60 * Milli
        IN  check(probe.result[1],
                  official_adgm_documents["employment_requirements"].required_docs)

\* C25 witness: the batch of one "Employment Contract" without an issue:
\* three documents missing, HIGH RISK, score 60
C25_Witness ==
    /\ probe.fn = "result"
    /\ probe.result # <<>>
    /\ probe.doc_types = <<EmploymentContract>>
    /\ probe.all_issues = <<>>
    /\ probe.result[1].process = "employment_requirements"
    /\ Len(probe.result[1].missing_documents) = 3
    /\ probe.result[1].risk_level = "HIGH RISK"
    /\ probe.result[1].compliance_score = 60 * Milli

\* C26: the process of the result of a batch of labels the classifier returns
\* is company_incorporation or employment_requirements: none of the labels
\* contains a keyword of the licensing or of the filings bucket, and with
\* equal totals of the incorporation and the employment bucket the process is
\* company_incorporation.
C26_TwoProcesses ==
    (probe.fn = "result" /\ probe.result # <<>> /\ C24_ClassifierLabels) =>
        LET check(labels, process) ==
                /\ process \in {"company_incorporation", "employment_requirements"}
                /\ \A i \in 1..Len(labels) :
                        ~C22_Hits(labels[i], 3) /\ ~C22_Hits(labels[i], 4)
                /\ C22_Total(labels, 1) = C22_Total(labels, 2) =>
                        process = "company_incorporation"
        IN  check(probe.doc_types, probe.result[1].process)

\* C26 witness: a batch of an "Employment Contract" and a label of the
\* incorporation bucket, in this order: equal totals, company_incorporation
C26_Witness ==
    /\ probe.fn = "result"
    /\ probe.result # <<>>
    /\ C24_ClassifierLabels
    /\ Len(probe.doc_types) = 2
    /\ probe.doc_types[1] = EmploymentContract
    /\ C22_Total(probe.doc_types, 1) = 10
    /\ C22_Total(probe.doc_types, 2) = 10
    /\ probe.result[1].process = "company_incorporation"

\* C28: in every result the overall assessment of the executive summary is
\* the risk level of the result, and the summary names "N missing documents"
\* among its key concerns, N the number of missing documents, iff a document
\* is missing.
C28_SummaryAgrees ==
    (probe.fn = "result" /\ probe.result # <<>>) =>
        LET check(result, summary) ==
                LET named == {i \in 1..Len(summary.key_concerns) :
                                summary.key_concerns[i].fmt = "{} missing documents"}
                IN  /\ summary.overall_assessment = result.risk_level
                    /\ named # {} <=> result.missing_documents # <<>>
                    /\ \A i \in named :
                            summary.key_concerns[i].n = Len(result.missing_documents)
        IN  check(probe.result[1], probe.result[1].executive_summary)

\* C28 witness: a result with one missing document and no Critical issue:
\* MEDIUM RISK in the summary, which names 1 missing document
C28_Witness ==
    /\ probe.fn = "result"
    /\ probe.result # <<>>
    /\ Len(probe.result[1].missing_documents) = 1
    /\ probe.result[1].risk_level = "MEDIUM RISK"
    /\ probe.result[1].executive_summary.overall_assessment = "MEDIUM RISK"
    /\ \E i \in 1..Len(probe.result[1].executive_summary.key_concerns) :
            probe.result[1].executive_summary.key_concerns[i] =
                FStr("{} missing documents", 1, <<>>, "")

(***************************************************************************)
(* Properties of the reviewed documents (SpecReview).                      *)
(***************************************************************************)
\* request c saves its reviewed document in this step
C29_Saves(c) ==
    /\ probe.reviews[c].pc = "create"
    /\ probe'.reviews[c].pc = "returned"
    /\ probe'.reviews[c].reviewed_file_path # <<>>

\* C29: the risk level written into the reviewed document of a request is
\* the risk level of the AnalysisResult of the request.
C29_SameRiskLevel ==
    [][\A c \in Requests :
        C29_Saves(c) =>
            \A o \in probe'.outputs :
                o.path = probe'.reviews[c].reviewed_file_path[1] =>
                    o.document.risk_level = calls[c].result[1].risk_level]_vars

\* C30: no request saves its reviewed document at a path at which a request
\* has saved one before.
C30_DistinctPaths ==
    [][\A c \in Requests :
        C29_Saves(c) =>
            \A o \in probe.outputs : o.path # probe'.reviews[c].reviewed_file_path[1]]_vars

=============================================================================
